---- MODULE Spec2Model ----
(***************************************************************************)
(* Multi-asset short trading system: strategy engine (regime, price/EMA    *)
(* cross detection, signal generation, exit rules), exchange client        *)
(* (quantity rounding, sizing, validation, order placement) and the        *)
(* trading loop (signal execution with retry, exit checks, daily reset).   *)
(*                                                                         *)
(* Units.  Time is in whole minutes since 00:00 UTC of 1 January (the      *)
(* request throttle reads a clock in milliseconds).  Money and             *)
(* prices are integers (cents); quantities are exact rationals [n, d]      *)
(* (the code uses floats and Decimal; the model computes the same          *)
(* expressions exactly).  An optional value (Python None or a value) is    *)
(* the empty sequence or a one-element sequence.                           *)
(***************************************************************************)
EXTENDS Integers, Sequences, FiniteSets, TLC

None == <<>>
Some(v) == <<v>>
Val(o) == o[1]

(***************************************************************************)
(* Exact rationals                                                         *)
(***************************************************************************)
RECURSIVE GCD(_, _)
GCD(a, b) == IF b = 0 THEN a ELSE GCD(b, a % b)

Q(n, d) == IF n = 0 THEN [n |-> 0, d |-> 1]
           ELSE [n |-> n \div GCD(n, d), d |-> d \div GCD(n, d)]
QInt(k) == [n |-> k, d |-> 1]
QLt(a, b) == a.n * b.d < b.n * a.d
QLe(a, b) == a.n * b.d <= b.n * a.d
QGt(a, b) == QLt(b, a)
QIsInt(a) == a.n % a.d = 0
\* q * k < m, with k and m integers
QTimesLt(q, k, m) == q.n * k < m * q.d
\* floor(q / step) for q >= 0 and an integer step > 0
QFloorSteps(q, step) == q.n \div (q.d * step)
\* q is a whole multiple of the integer step
QIsMultiple(q, step) == QIsInt(q) /\ (q.n \div q.d) % step = 0

\* Bind(v, F): F applied to the value of v, which is computed once.
Bind(v, F(_)) == CHOOSE x \in {F(r) : r \in {v}} : TRUE

RECURSIVE SeqSum(_)
SeqSum(s) == IF s = <<>> THEN 0 ELSE Head(s) + SeqSum(Tail(s))

(***************************************************************************)
(* Configuration                                                           *)
(***************************************************************************)
\* Enabled assets in their enumeration order (BTC, ETH of the configured
\* BTC, ETH, SOL).
AssetOrder == <<"BTC", "ETH">>
Assets == {AssetOrder[i] : i \in 1..Len(AssetOrder)}
Symbol(asset) == IF asset = "BTC" THEN "BTCUSDT" ELSE "ETHUSDT"
Symbols == {Symbol(a) : a \in Assets}

cross_threshold == 12
recent_cross_window_minutes == 5
max_hold_minutes == 1440
hours_to_keep_minutes == 1440

(***************************************************************************)
(* Strategy engine: pure parts                                             *)
(***************************************************************************)
MarketData(asset, price, ema_240, ema_600, timestamp) ==
    [asset |-> asset, price |-> price, ema_240 |-> ema_240,
     ema_600 |-> ema_600, timestamp |-> timestamp]

EmptyPosition ==
    [in_position |-> FALSE, entry_price |-> 0, asset_amount |-> QInt(0),
     leveraged_value |-> 0, entry_time |-> None]

\* update_position: the whole record is rewritten; entry_time is the call
\* time when opening and None when closing.
update_position(positions, asset, in_position, entry_price, asset_amount, leveraged_value, t) ==
    IF asset \in DOMAIN positions
    THEN [positions EXCEPT ![asset] =
            [in_position |-> in_position, entry_price |-> entry_price,
             asset_amount |-> asset_amount, leveraged_value |-> leveraged_value,
             entry_time |-> IF in_position THEN Some(t) ELSE None]]
    ELSE positions

\* Mutant: the comparison with the averages is not strict.
determine_market_regime_nonstrict(md) ==
    IF md.price <= md.ema_240 /\ md.price <= md.ema_600 THEN "ACTIVE" ELSE "INACTIVE"

determine_market_regime(md) ==
    IF md.price < md.ema_240 /\ md.price < md.ema_600 THEN "ACTIVE" ELSE "INACTIVE"

\* A cross event.  The code also stores the asset, the price and the average
\* in it; nothing reads them back, and the model keeps the two fields that
\* are read.
CrossEvent(md, type, ema) == [type |-> type, timestamp |-> md.timestamp]

\* Mutant of the cross test: non-strict comparison of the current bar.
price_crossed_below_nonstrict(previous_price, previous_ema, current_price, current_ema) ==
    previous_price > previous_ema /\ current_price <= current_ema

price_crossed_below(previous_price, previous_ema, current_price, current_ema) ==
    previous_price > previous_ema /\ current_price < current_ema

\* Mutant: the cold-start guard is dropped and a missing previous value is
\* read as "price was above".
detect_cross_events_no_cold_start(previous_price, previous_emas, md) ==
    LET above_240 == previous_price = None \/ previous_emas.ema_240 = None
                     \/ Val(previous_price) > Val(previous_emas.ema_240)
        above_600 == previous_price = None \/ previous_emas.ema_600 = None
                     \/ Val(previous_price) > Val(previous_emas.ema_600)
    IN  (IF above_240 /\ md.price < md.ema_240
         THEN <<CrossEvent(md, "PRICE_BELOW_EMA240", md.ema_240)>> ELSE <<>>)
        \o
        (IF above_600 /\ md.price < md.ema_600
         THEN <<CrossEvent(md, "PRICE_BELOW_EMA600", md.ema_600)>> ELSE <<>>)

\* The list detect_price_ema_crosses returns, from the stored previous
\* snapshot and the current one.
detect_cross_events(previous_price, previous_emas, md) ==
    IF previous_price = None \/ previous_emas.ema_240 = None
       \/ previous_emas.ema_600 = None
    THEN <<>>
    ELSE
      (IF price_crossed_below(Val(previous_price), Val(previous_emas.ema_240),
                              md.price, md.ema_240)
       THEN <<CrossEvent(md, "PRICE_BELOW_EMA240", md.ema_240)>> ELSE <<>>)
      \o
      (IF price_crossed_below(Val(previous_price), Val(previous_emas.ema_600),
                              md.price, md.ema_600)
       THEN <<CrossEvent(md, "PRICE_BELOW_EMA600", md.ema_600)>> ELSE <<>>)

\* Mutant: a simultaneous cross of both averages is counted once.
daily_count_after_detect_once(count, cross_events) ==
    IF cross_events = <<>> THEN count ELSE count + 1

daily_count_after_detect(count, cross_events) == count + Len(cross_events)

has_recent_price_ema_cross(events, t, window_minutes) ==
    \E i \in 1..Len(events) : t - events[i].timestamp <= window_minutes

\* Mutants of the decision chain: the position gate is missing; the daily
\* limit is compared with > instead of >=.
signal_decision_no_position_gate(in_position, regime, daily_count, has_recent) ==
    IF regime # "ACTIVE"
    THEN [signal_type |-> "NO_ACTION", reason |-> "regime not active"]
    ELSE IF daily_count >= cross_threshold
    THEN [signal_type |-> "NO_ACTION", reason |-> "daily cross limit exceeded"]
    ELSE IF ~has_recent
    THEN [signal_type |-> "NO_ACTION", reason |-> "no recent cross"]
    ELSE [signal_type |-> "ENTER_SHORT", reason |-> "cross in active regime"]

signal_decision_limit_off_by_one(in_position, regime, daily_count, has_recent) ==
    IF in_position
    THEN [signal_type |-> "NO_ACTION", reason |-> "in position"]
    ELSE IF regime # "ACTIVE"
    THEN [signal_type |-> "NO_ACTION", reason |-> "regime not active"]
    ELSE IF daily_count > cross_threshold
    THEN [signal_type |-> "NO_ACTION", reason |-> "daily cross limit exceeded"]
    ELSE IF ~has_recent
    THEN [signal_type |-> "NO_ACTION", reason |-> "no recent cross"]
    ELSE [signal_type |-> "ENTER_SHORT", reason |-> "cross in active regime"]

\* The if-chain of generate_asset_signal, evaluated after regime and cross
\* detection have updated the engine.
signal_decision(in_position, regime, daily_count, has_recent) ==
    IF in_position
    THEN [signal_type |-> "NO_ACTION", reason |-> "in position"]
    ELSE IF regime # "ACTIVE"
    THEN [signal_type |-> "NO_ACTION", reason |-> "regime not active"]
    ELSE IF daily_count >= cross_threshold
    THEN [signal_type |-> "NO_ACTION", reason |-> "daily cross limit exceeded"]
    ELSE IF ~has_recent
    THEN [signal_type |-> "NO_ACTION", reason |-> "no recent cross"]
    ELSE [signal_type |-> "ENTER_SHORT", reason |-> "cross in active regime"]

(***************************************************************************)
(* Exchange client: pure parts.  specs is the instrument_specs cache:      *)
(* symbol -> None | Some([min_order_qty, max_order_qty, qty_step,          *)
(* min_notional]); quantities and steps are whole lots, min_notional is in *)
(* cents.                                                                  *)
(***************************************************************************)
InstrumentSpec(min_order_qty, max_order_qty, qty_step, min_notional) ==
    [min_order_qty |-> min_order_qty, max_order_qty |-> max_order_qty,
     qty_step |-> qty_step, min_notional |-> min_notional]

\* Mutant: the quantity is rounded to the nearest step, halves upwards.
round_quantity_nearest(specs, symbol, quantity) ==
    IF specs[symbol] = None THEN quantity
    ELSE LET sp == Val(specs[symbol])
             steps == (2 * quantity.n + quantity.d * sp.qty_step)
                        \div (2 * quantity.d * sp.qty_step)
             rounded == QInt(steps * sp.qty_step)
             raised == IF QLt(rounded, QInt(sp.min_order_qty))
                       THEN QInt(sp.min_order_qty) ELSE rounded
         IN  IF sp.qty_step <= 0 THEN quantity
             ELSE IF sp.max_order_qty > 0 /\ QGt(raised, QInt(sp.max_order_qty))
                  THEN QInt(sp.max_order_qty) ELSE raised

\* round_quantity: floor to a whole number of steps, then raise to the
\* minimum, then cap at the maximum (when it is positive).  Without cached
\* specs, or with a step that is not positive, the quantity is returned as is.
round_quantity(specs, symbol, quantity) ==
    IF specs[symbol] = None THEN quantity
    ELSE LET sp == Val(specs[symbol])
             steps == QFloorSteps(quantity, sp.qty_step)
             rounded == QInt(steps * sp.qty_step)
             raised == IF QLt(rounded, QInt(sp.min_order_qty))
                       THEN QInt(sp.min_order_qty) ELSE rounded
         IN  IF sp.qty_step <= 0 THEN quantity
             ELSE IF sp.max_order_qty > 0 /\ QGt(raised, QInt(sp.max_order_qty))
                  THEN QInt(sp.max_order_qty) ELSE raised

\* calculate_quantity_for_usdt_value: the target is raised to the minimum
\* notional, divided by the price and rounded; when the rounded quantity
\* falls short of the minimum notional, min_notional / price is rounded (by
\* the same round_quantity) and returned.
calculate_quantity_for_usdt_value(specs, symbol, target_usdt_value, price) ==
    IF specs[symbol] = None THEN Q(target_usdt_value, price)
    ELSE LET min_notional == Val(specs[symbol]).min_notional
             target == IF target_usdt_value < min_notional
                       THEN min_notional ELSE target_usdt_value
             raw_quantity == Q(target, price)
             rounded_quantity == round_quantity(specs, symbol, raw_quantity)
             required_quantity == Q(min_notional, price)
         IN  IF QTimesLt(rounded_quantity, price, min_notional)
             THEN round_quantity(specs, symbol, required_quantity)
             ELSE rounded_quantity

\* Mutant of validate_order_params: the check against the minimum quantity
\* is missing.  Then
\* validate_order_params(symbol, quantity, price): price is optional (None
\* or Some(p)); the notional check runs only with a price and a positive
\* minimum notional.  The checks are made on the quantity as given; the
\* corrected quantity is its rounding.
validate_order_params_no_minimum(specs, symbol, quantity, price) ==
    IF specs[symbol] = None
    THEN [valid |-> FALSE, corrected_qty |-> quantity]
    ELSE LET sp == Val(specs[symbol])
             price_given == price # None /\ Val(price) # 0
         IN  [valid |-> /\ quantity.n > 0
                        /\ ~(sp.max_order_qty > 0 /\ QGt(quantity, QInt(sp.max_order_qty)))
                        /\ ~(/\ price_given
                             /\ sp.min_notional > 0
                             /\ QTimesLt(quantity, Val(price), sp.min_notional)),
              corrected_qty |-> round_quantity(specs, symbol, quantity)]

validate_order_params(specs, symbol, quantity, price) ==
    IF specs[symbol] = None
    THEN [valid |-> FALSE, corrected_qty |-> quantity]
    ELSE LET sp == Val(specs[symbol])
             price_given == price # None /\ Val(price) # 0
         IN  [valid |-> /\ quantity.n > 0
                        /\ ~QLt(quantity, QInt(sp.min_order_qty))
                        /\ ~(sp.max_order_qty > 0 /\ QGt(quantity, QInt(sp.max_order_qty)))
                        /\ ~(/\ price_given
                             /\ sp.min_notional > 0
                             /\ QTimesLt(quantity, Val(price), sp.min_notional)),
              corrected_qty |-> round_quantity(specs, symbol, quantity)]

(***************************************************************************)
(* State                                                                   *)
(***************************************************************************)
VARIABLES
    asset_positions,      \* engine: asset -> position record (the ledger)
    current_regimes,      \* engine: asset -> "ACTIVE" | "INACTIVE"
    previous_prices,      \* engine: asset -> None | Some(price)
    previous_emas,        \* engine: asset -> [ema_240, ema_600], each optional
    recent_cross_events,  \* engine: asset -> sequence of cross events
    daily_cross_count,    \* engine: asset -> Nat
    instrument_specs,     \* client: symbol -> None (not cached) | Some(spec)
    account_balance,      \* system: balance cached at session start (cents)
    last_daily_reset,     \* system: None | Some(day number of the last reset)
    running,              \* system: the main loop's flag
    pc,                   \* where run() is: "run", "main_loop_start", "main_loop",
                          \* a step of the loop body, "except", "done"
    now,                  \* the UTC clock, minutes
    signals,              \* main loop: the signals dict of the latest tick
    previous_regimes,     \* engine: asset -> None | Some(regime), alert tracking
    exchange_klines,      \* exchange: the bar list get_klines returns
    recent_alerts,        \* engine: asset -> sequence of retained alerts
    price_history,        \* engine: asset -> the latest prices seen by the alerts
    volume_history,       \* engine: asset -> the latest volumes seen by the alerts
    alert_log,            \* every alert detect_market_alerts has returned
    daily_reset_log,      \* system log: the times of "Daily reset time reached"
    last_request_time,    \* client: time.time() after the last answered request, ms
    time_time,            \* the clock time.time() reads, ms
    lock_path,            \* file system: None | Some(inode) at the lock file's path
    flock_holder,         \* file system: inode -> None | Some(process holding its flock)
    process,              \* process -> [pc, lock_file] of its run()
    last                  \* the last operation and what it returned

\* The request throttle of the client, and the lock file with the processes
\* that start and stop around it.
throttle_vars == <<last_request_time, time_time>>
lock_vars == <<lock_path, flock_holder, process>>
\* The alert tracking of the engine, and the alerts it has raised.
alert_vars == <<recent_alerts, price_history, volume_history, alert_log>>

vars == <<asset_positions, current_regimes, previous_prices, previous_emas,
          recent_cross_events, daily_cross_count, instrument_specs,
          account_balance, last_daily_reset, running, pc, now, signals,
          previous_regimes, exchange_klines, alert_vars, daily_reset_log, throttle_vars, lock_vars, last>>

\* The strategy engine's fields as one value, and their assignment.
Engine ==
    [asset_positions |-> asset_positions, current_regimes |-> current_regimes,
     previous_prices |-> previous_prices, previous_emas |-> previous_emas,
     recent_cross_events |-> recent_cross_events,
     daily_cross_count |-> daily_cross_count]

SetEngine(eng) ==
    /\ asset_positions' = eng.asset_positions
    /\ current_regimes' = eng.current_regimes
    /\ previous_prices' = eng.previous_prices
    /\ previous_emas' = eng.previous_emas
    /\ recent_cross_events' = eng.recent_cross_events
    /\ daily_cross_count' = eng.daily_cross_count

NoSignal ==
    [asset |-> "", signal_type |-> "NONE", reason |-> "", price |-> 0,
     cross_events |-> <<>>]

\* What an operation leaves in `last`; fields an operation does not use keep
\* these values.
LastDefault ==
    [op |-> "init", asset |-> "", md |-> MarketData("", 0, 0, 0, 0),
     cold_start |-> FALSE, cross_events |-> <<>>, signal |-> NoSignal,
     symbol |-> "", target |-> 0, price |-> 0, quantity |-> QInt(0), time |-> 0,
     attempts |-> <<>>, opened |-> FALSE, before |-> EmptyPosition,
     generated |-> [a \in Assets |-> NoSignal],
     entries |-> [a \in Assets |-> <<>>],
     held |-> [a \in Assets |-> EmptyPosition],
     snapshots |-> [a \in Assets |-> None],
     exit_snapshots |-> [a \in Assets |-> None],
     exits |-> [a \in Assets |-> "not checked"],
     outcome |-> "", notification |-> None, next_close |-> None,
     sent_at |-> 0, previous_sent_at |-> None,
     klines |-> <<>>, closes |-> <<>>, volume |-> 0,
     raw_quantity |-> QInt(0), order_price |-> None, valid |-> FALSE,
     exchange_size |-> 0, read_ok |-> FALSE, close |-> "",
     balance |-> [kind |-> "", wallet |-> 0]]

\* The processes that may run the program on one host, and the inodes the
\* lock file's path may name one after the other.
MaxProcesses == 3
MaxInodes == 2
Processes == 1..MaxProcesses
Inodes == 1..MaxInodes

\* BybitClient.request_interval, in milliseconds.
request_interval == 100

\* MultiAssetStrategyEngine.__init__, BybitClient.__init__ and
\* MultiAssetTradingSystem.__init__, with the clock at t and an exchange
\* that answers get_klines with klines.
InitWith(t, klines) ==
    /\ asset_positions = [a \in Assets |-> EmptyPosition]
    /\ current_regimes = [a \in Assets |-> "ACTIVE"]
    /\ previous_prices = [a \in Assets |-> None]
    /\ previous_emas = [a \in Assets |-> [ema_240 |-> None, ema_600 |-> None]]
    /\ recent_cross_events = [a \in Assets |-> <<>>]
    /\ daily_cross_count = [a \in Assets |-> 0]
    /\ instrument_specs = [s \in Symbols |-> None]
    /\ account_balance = 0
    /\ last_daily_reset = None
    /\ running = FALSE
    /\ pc = "run"
    /\ now = t
    /\ signals = [a \in Assets |-> None]
    /\ previous_regimes = [a \in Assets |-> None]
    /\ exchange_klines = klines
    /\ recent_alerts = [a \in Assets |-> <<>>]
    /\ price_history = [a \in Assets |-> <<>>]
    /\ volume_history = [a \in Assets |-> <<>>]
    /\ alert_log = <<>>
    /\ daily_reset_log = <<>>
    /\ last_request_time = 0
    /\ time_time = request_interval
    /\ lock_path = None
    /\ flock_holder = [i \in Inodes |-> None]
    /\ process = [p \in Processes |-> [pc |-> "run", lock_file |-> None, running |-> FALSE]]
    /\ last = LastDefault

InitAt(t) == InitWith(t, <<>>)
Init == InitAt(0)

TotalEvents == SeqSum([i \in 1..Len(AssetOrder) |-> Len(recent_cross_events[AssetOrder[i]])])

(***************************************************************************)
(* Strategy engine: operations                                             *)
(***************************************************************************)
\* Mutant: the gates on the position and on the regime come before cross
\* detection, which is skipped when one of them returns.
generate_asset_signal_gates_first(eng, md, t) ==
    LET a == md.asset
        regime == determine_market_regime(md)
        gated == eng.asset_positions[a].in_position \/ regime # "ACTIVE"
        cross_events == IF gated THEN <<>>
                        ELSE detect_cross_events(eng.previous_prices[a],
                                                 eng.previous_emas[a], md)
        events_after == eng.recent_cross_events[a] \o cross_events
        count_after == daily_count_after_detect(eng.daily_cross_count[a], cross_events)
        decision == signal_decision(
                        eng.asset_positions[a].in_position, regime, count_after,
                        has_recent_price_ema_cross(events_after, t,
                                                   recent_cross_window_minutes))
    IN  [eng |-> IF gated THEN [eng EXCEPT !.current_regimes[a] = regime]
                 ELSE [eng EXCEPT
                         !.current_regimes[a] = regime,
                         !.previous_prices[a] = Some(md.price),
                         !.previous_emas[a] = [ema_240 |-> Some(md.ema_240),
                                               ema_600 |-> Some(md.ema_600)],
                         !.recent_cross_events[a] = events_after,
                         !.daily_cross_count[a] = count_after],
         cross_events |-> cross_events,
         signal |-> [asset |-> a, signal_type |-> decision.signal_type,
                     reason |-> decision.reason, price |-> md.price,
                     cross_events |-> cross_events]]

\* generate_asset_signal(market_data) on the engine state eng at time t:
\* regime, then cross detection (which stores the snapshot and records the
\* events), then the decision chain.  Returns the new engine state and the
\* signal.
generate_asset_signal(eng, md, t) ==
    LET a == md.asset
        regime == determine_market_regime(md)
        cross_events == detect_cross_events(eng.previous_prices[a], eng.previous_emas[a], md)
        events_after == eng.recent_cross_events[a] \o cross_events
        count_after == daily_count_after_detect(eng.daily_cross_count[a], cross_events)
        decision == signal_decision(
                        eng.asset_positions[a].in_position, regime, count_after,
                        has_recent_price_ema_cross(events_after, t,
                                                   recent_cross_window_minutes))
    IN  [eng |-> [eng EXCEPT
                    !.current_regimes[a] = regime,
                    !.previous_prices[a] = Some(md.price),
                    !.previous_emas[a] = [ema_240 |-> Some(md.ema_240),
                                          ema_600 |-> Some(md.ema_600)],
                    !.recent_cross_events[a] = events_after,
                    !.daily_cross_count[a] = count_after],
         cross_events |-> cross_events,
         signal |-> [asset |-> a, signal_type |-> decision.signal_type,
                     reason |-> decision.reason, price |-> md.price,
                     cross_events |-> cross_events]]

\* A call of generate_asset_signal(market_data) on its own.
GenerateAssetSignal(a, md) ==
    \E r \in {generate_asset_signal(Engine, md, now)} :
        /\ md.asset = a
        /\ md.timestamp = now
        /\ SetEngine(r.eng)
        /\ last' = [LastDefault EXCEPT
                      !.op = "generate_asset_signal", !.asset = a, !.md = md,
                      !.cold_start = (previous_prices[a] = None),
                      !.cross_events = r.cross_events, !.signal = r.signal]
        /\ UNCHANGED <<daily_reset_log, previous_regimes, exchange_klines, alert_vars, throttle_vars, lock_vars,
                       instrument_specs, account_balance, last_daily_reset,
                       running, pc, now, signals>>

reset_daily_cross_counts(eng) ==
    [eng EXCEPT !.daily_cross_count = [a \in Assets |-> 0]]

\* A call of reset_daily_cross_counts() on its own.
ResetDailyCrossCounts ==
    /\ SetEngine(reset_daily_cross_counts(Engine))
    /\ last' = [LastDefault EXCEPT !.op = "reset_daily_cross_counts"]
    /\ UNCHANGED <<daily_reset_log, previous_regimes, exchange_klines, alert_vars, throttle_vars, lock_vars,
                   instrument_specs, account_balance, last_daily_reset, running,
                   pc, now, signals>>

\* cleanup_old_cross_events(hours_to_keep=24): events older than the cutoff
\* (or exactly at it) are dropped.
cleanup_old_cross_events(eng, t) ==
    [eng EXCEPT !.recent_cross_events =
        [a \in Assets |->
            SelectSeq(eng.recent_cross_events[a],
                      LAMBDA e : e.timestamp > t - hours_to_keep_minutes)]]

\* A call of update_position(asset, in_position, ...) on its own.
UpdatePosition(a, in_position, entry_price, asset_amount, leveraged_value) ==
    /\ asset_positions' = update_position(asset_positions, a, in_position,
                                          entry_price, asset_amount,
                                          leveraged_value, now)
    /\ last' = [LastDefault EXCEPT !.op = "update_position", !.asset = a]
    /\ UNCHANGED <<daily_reset_log, previous_regimes, exchange_klines, alert_vars, throttle_vars, lock_vars,
                   current_regimes, previous_prices, previous_emas,
                   recent_cross_events, daily_cross_count, instrument_specs,
                   account_balance, last_daily_reset, running, pc, now, signals>>

\* The clock moves on by d minutes.
AdvanceClock(d) ==
    /\ now' = now + d
    /\ last' = [LastDefault EXCEPT !.op = "clock"]
    /\ UNCHANGED <<daily_reset_log, previous_regimes, exchange_klines, alert_vars, throttle_vars, lock_vars,
                   asset_positions, current_regimes, previous_prices, previous_emas,
                   recent_cross_events, daily_cross_count, instrument_specs,
                   account_balance, last_daily_reset, running, pc, signals>>

(***************************************************************************)
(* Exchange client: requests                                               *)
(***************************************************************************)
\* get_instrument_info(symbol): reply is None when the request fails or the
\* instrument list is empty (the cache is left as it is), Some(spec) when the
\* exchange answers (the spec is cached).
get_instrument_info(specs, symbol, reply) ==
    IF reply = None THEN specs ELSE [specs EXCEPT ![symbol] = reply]

demo_wallet_balance == 10000000
default_session_balance == 1000000

\* A wallet-balance reply: "usdt" carries the USDT wallet balance, "no_usdt"
\* lists accounts without a USDT coin, "no_list" has no account list, "failed"
\* is a failed request.
BalanceReply(kind, wallet) == [kind |-> kind, wallet |-> wallet]

\* get_account_balance(): a failed request is answered with the demo balance.
get_account_balance(reply) ==
    IF reply.kind = "failed" THEN BalanceReply("usdt", demo_wallet_balance) ELSE reply

\* Mutant: the order is submitted without validation.
place_order_unvalidated(specs, symbol, qty, price, fetch_reply, exchange_ok) ==
    LET specs_now == IF specs[symbol] = None
                     THEN get_instrument_info(specs, symbol, fetch_reply)
                     ELSE specs
    IN  [specs |-> specs_now, sent |-> TRUE, qty |-> qty, ok |-> exchange_ok]

\* place_order(symbol, side, order_type, qty, price): fetches the spec when it
\* is not cached, validates (raising before anything is sent when invalid) and
\* submits the corrected quantity; exchange_ok is whether the exchange accepts
\* the request.
place_order(specs, symbol, qty, price, fetch_reply, exchange_ok) ==
    LET specs_now == IF specs[symbol] = None
                     THEN get_instrument_info(specs, symbol, fetch_reply)
                     ELSE specs
        validation == validate_order_params(specs_now, symbol, qty, price)
    IN  IF ~validation.valid
        THEN [specs |-> specs_now, sent |-> FALSE, qty |-> qty, ok |-> FALSE]
        ELSE [specs |-> specs_now, sent |-> TRUE,
              qty |-> validation.corrected_qty, ok |-> exchange_ok]

\* _make_request(method, endpoint, params), called when the clock reads
\* current_time: the throttle sleeps until one request interval after
\* last_request_time, the request is sent, and its outcome arrives latency
\* milliseconds later.  last_request_time is assigned after a response with
\* HTTP status 200 has been read ("ok", and "api_error" for a retCode other
\* than 0); a response with another status ("http_error") and a transport
\* error ("client_error") raise before the assignment.
RequestOutcomes == {"ok", "api_error", "http_error", "client_error"}
make_request(last_time, current_time, latency, outcome) ==
    LET sent_at == IF current_time - last_time < request_interval
                   THEN current_time + (request_interval - (current_time - last_time))
                   ELSE current_time
        returned_at == sent_at + latency
    IN  [sent_at |-> sent_at, returned_at |-> returned_at,
         last_request_time |-> IF outcome \in {"ok", "api_error"}
                               THEN returned_at ELSE last_time]

\* A request made idle milliseconds after the previous operation.
MakeRequest(idle, latency, outcome) ==
    /\ \E r \in {make_request(last_request_time, time_time + idle, latency, outcome)} :
          /\ last_request_time' = r.last_request_time
          /\ time_time' = r.returned_at
          /\ last' = [LastDefault EXCEPT
                        !.op = "make_request", !.outcome = outcome,
                        !.sent_at = r.sent_at,
                        !.previous_sent_at = IF last.op = "make_request"
                                             THEN Some(last.sent_at) ELSE None]
    /\ UNCHANGED <<asset_positions, current_regimes, previous_prices, previous_emas,
                   recent_cross_events, daily_cross_count, instrument_specs,
                   account_balance, last_daily_reset, running, pc, now, signals,
                   previous_regimes, exchange_klines, alert_vars, daily_reset_log, lock_vars>>

(***************************************************************************)
(* Trading system: entries                                                 *)
(***************************************************************************)
per_asset_allocation_pct == 7
leverage_per_asset == 10
max_retries == 3
retry_backoff_seconds == 1

\* round(x, 2) on an amount of n/d cents: to the nearest cent, a tie to the
\* even cent.
RoundHalfEven(n, d) ==
    LET q == n \div d
        r == n % d
    IN  IF 2 * r < d THEN q
        ELSE IF 2 * r > d THEN q + 1
        ELSE IF q % 2 = 0 THEN q ELSE q + 1

\* The balance execute_signal sizes with: the USDT wallet balance of the
\* reply, else the balance cached at startup.
current_balance(cached_balance, reply) ==
    LET balance_info == get_account_balance(reply)
    IN  IF balance_info.kind = "usdt" THEN balance_info.wallet ELSE cached_balance

\* leveraged_value = round(balance * allocation_pct * leverage, 2)
leveraged_value_of(balance) ==
    RoundHalfEven(balance * per_asset_allocation_pct * leverage_per_asset, 100)

\* What the exchange and the network do during one entry: the balance reply,
\* whether each submission is accepted, and the reply to each re-fetch of the
\* instrument spec; and whether the entry notification is delivered.
EntryInputWith(balance, outcomes, refetch, delivered) ==
    [balance |-> balance, outcomes |-> outcomes, refetch |-> refetch,
     delivered |-> delivered]
EntryInput(balance, outcomes, refetch) ==
    EntryInputWith(balance, outcomes, refetch, TRUE)

\* Mutant: a notification that is not delivered undoes what it reports.
after_notification_failure_propagates(before, after, delivered) ==
    IF delivered THEN after ELSE before

\* The state after a notification block: the notification is sent after the
\* update it reports, and a failure to deliver it is caught and logged (in
\* send_trade_notification and send_daily_status_update, and again by the
\* handler around the call), so the state is the one the update left.
after_notification(before, after, delivered) == after

\* The retry loop of execute_signal from attempt number `attempt` (1-based)
\* on.  A failed submission that is not the last is followed by a re-fetch of
\* the spec and a validation of raw_quantity at the signal price; an invalid
\* one ends the entry, a valid one is retried with the corrected quantity.
\* The last failure is re-raised and ends the entry.  Each attempt is
\* recorded with the quantity sent and the spec cached when it was sent, the
\* seconds slept and the reply to the re-fetch since the attempt before it.
Attempt(order, symbol, slept, refetched) ==
    [sent |-> order.sent, qty |-> order.qty, specs |-> order.specs[symbol],
     ok |-> order.ok, slept |-> slept, refetched |-> refetched]

\* Mutant: the retry goes on whatever the re-validation says.
retry_allowed_always(validation) == TRUE

\* `if validation['valid']` after the re-fetch: the loop goes on, else
\* execute_signal returns.
retry_allowed(validation) == validation.valid

RECURSIVE retry_loop(_, _, _, _, _, _, _, _)
retry_loop(specs, symbol, raw_quantity, price, asset_quantity, attempt, inp, attempts) ==
    \* validation at 303 or 352 succeeded, so the symbol is cached and
    \* place_order's own fetch does not run
    Bind(place_order(specs, symbol, asset_quantity, None, None, inp.outcomes[attempt]),
         LAMBDA order :
    Bind(Append(attempts,
                IF attempt = 1
                THEN Attempt(order, symbol, 0, None)
                ELSE Attempt(order, symbol, retry_backoff_seconds,
                             Some(inp.refetch[attempt - 1]))),
         LAMBDA attempts_now :
        IF order.ok
        THEN [placed |-> TRUE, asset_quantity |-> asset_quantity,
              specs |-> order.specs, attempts |-> attempts_now]
        ELSE IF attempt = max_retries
        THEN [placed |-> FALSE, asset_quantity |-> asset_quantity,
              specs |-> order.specs, attempts |-> attempts_now]
        ELSE
    Bind(get_instrument_info(order.specs, symbol, inp.refetch[attempt]),
         LAMBDA specs_now :
    Bind(validate_order_params(specs_now, symbol, raw_quantity, Some(price)),
         LAMBDA validation :
        IF retry_allowed(validation)
        THEN retry_loop(specs_now, symbol, raw_quantity, price,
                        validation.corrected_qty, attempt + 1, inp, attempts_now)
        ELSE [placed |-> FALSE, asset_quantity |-> asset_quantity,
              specs |-> specs_now, attempts |-> attempts_now]))))

\* Mutant: the ledger is updated whether or not an order was placed.
ledger_after_entry_always(positions, asset, placed, price, asset_quantity, leveraged_value, t) ==
    update_position(positions, asset, TRUE, price, asset_quantity, leveraged_value, t)

\* The ledger after the retry loop: update_position runs only when the loop
\* was left by a successful submission.
ledger_after_entry(positions, asset, placed, price, asset_quantity, leveraged_value, t) ==
    IF placed
    THEN update_position(positions, asset, TRUE, price, asset_quantity, leveraged_value, t)
    ELSE positions

\* execute_signal(signal) on the ledger `positions`, the spec cache `specs`
\* and the cached balance, at time t.  Returns the new ledger and cache, the
\* recorded attempts and whether a position was opened.
execute_signal(positions, specs, cached_balance, signal, t, inp) ==
    LET symbol == Symbol(signal.asset)
        nothing == [positions |-> positions, specs |-> specs, attempts |-> <<>>,
                    opened |-> FALSE, leveraged_value |-> 0]
    IN  IF signal.signal_type # "ENTER_SHORT" THEN nothing
        ELSE IF signal.price = 0 THEN nothing   \* ZeroDivisionError, caught at 394
        ELSE
    Bind(leveraged_value_of(current_balance(cached_balance, inp.balance)),
         LAMBDA leveraged_value :
    Bind(Q(leveraged_value, signal.price),
         LAMBDA raw_quantity :
    Bind(calculate_quantity_for_usdt_value(specs, symbol, leveraged_value, signal.price),
         LAMBDA corrected_quantity :
        IF corrected_quantity.n <= 0 THEN nothing
        ELSE
    Bind(validate_order_params(specs, symbol, corrected_quantity, Some(signal.price)),
         LAMBDA validation :
        IF ~validation.valid THEN nothing
        ELSE
    Bind(retry_loop(specs, symbol, raw_quantity, signal.price,
                    validation.corrected_qty, 1, inp, <<>>),
         LAMBDA loop :
        [positions |-> after_notification(
                           positions,
                           ledger_after_entry(positions, signal.asset, loop.placed,
                                              signal.price, loop.asset_quantity,
                                              leveraged_value, t),
                           ~loop.placed \/ inp.delivered),
         specs |-> loop.specs, attempts |-> loop.attempts,
         opened |-> loop.placed, leveraged_value |-> leveraged_value])))))

\* A call of get_instrument_info(symbol) on its own.
GetInstrumentInfo(symbol, reply) ==
    /\ instrument_specs' = get_instrument_info(instrument_specs, symbol, reply)
    /\ last' = [LastDefault EXCEPT !.op = "get_instrument_info", !.symbol = symbol]
    /\ UNCHANGED <<daily_reset_log, previous_regimes, exchange_klines, alert_vars, throttle_vars, lock_vars,
                   asset_positions, current_regimes, previous_prices, previous_emas,
                   recent_cross_events, daily_cross_count, account_balance,
                   last_daily_reset, running, pc, now, signals>>

\* A call of calculate_quantity_for_usdt_value(symbol, target, price) on its own.
CalculateQuantityForUsdtValue(symbol, target_usdt_value, price) ==
    /\ last' = [LastDefault EXCEPT
                  !.op = "calculate_quantity_for_usdt_value", !.symbol = symbol,
                  !.target = target_usdt_value, !.price = price,
                  !.quantity = calculate_quantity_for_usdt_value(
                                   instrument_specs, symbol, target_usdt_value, price)]
    /\ UNCHANGED <<daily_reset_log, previous_regimes, exchange_klines, alert_vars, throttle_vars, lock_vars,
                   asset_positions, current_regimes, previous_prices, previous_emas,
                   recent_cross_events, daily_cross_count, instrument_specs,
                   account_balance, last_daily_reset, running, pc, now, signals>>

\* A call of round_quantity(symbol, quantity) on its own.
RoundQuantity(symbol, quantity) ==
    /\ last' = [LastDefault EXCEPT
                  !.op = "round_quantity", !.symbol = symbol,
                  !.raw_quantity = quantity,
                  !.quantity = round_quantity(instrument_specs, symbol, quantity)]
    /\ UNCHANGED <<daily_reset_log, previous_regimes, exchange_klines, alert_vars, throttle_vars, lock_vars,
                   asset_positions, current_regimes, previous_prices, previous_emas,
                   recent_cross_events, daily_cross_count, instrument_specs,
                   account_balance, last_daily_reset, running, pc, now, signals>>

\* A call of validate_order_params(symbol, quantity, price) on its own.
ValidateOrderParams(symbol, quantity, price) ==
    /\ \E r \in {validate_order_params(instrument_specs, symbol, quantity, price)} :
          last' = [LastDefault EXCEPT
                     !.op = "validate_order_params", !.symbol = symbol,
                     !.raw_quantity = quantity, !.order_price = price,
                     !.valid = r.valid, !.quantity = r.corrected_qty]
    /\ UNCHANGED <<daily_reset_log, previous_regimes, exchange_klines, alert_vars, throttle_vars, lock_vars,
                   asset_positions, current_regimes, previous_prices, previous_emas,
                   recent_cross_events, daily_cross_count, instrument_specs,
                   account_balance, last_daily_reset, running, pc, now, signals>>

\* A call of place_order(symbol, side, 'Market', qty) on its own: the
\* attempt is recorded as in the retry loop, and a failed validation raises
\* ValueError.
PlaceOrder(symbol, qty, fetch_reply, exchange_ok) ==
    \E order \in {place_order(instrument_specs, symbol, qty, None, fetch_reply,
                              exchange_ok)} :
        /\ instrument_specs' = order.specs
        /\ last' = [LastDefault EXCEPT
                      !.op = "place_order", !.symbol = symbol,
                      !.raw_quantity = qty, !.quantity = order.qty,
                      !.attempts = <<Attempt(order, symbol, 0, None)>>,
                      !.outcome = IF ~order.sent THEN "ValueError"
                                  ELSE IF order.ok THEN "ok" ELSE "Exception"]
        /\ UNCHANGED <<daily_reset_log, previous_regimes, exchange_klines, alert_vars, throttle_vars, lock_vars,
                       asset_positions, current_regimes, previous_prices, previous_emas,
                       recent_cross_events, daily_cross_count, account_balance,
                       last_daily_reset, running, pc, now, signals>>

\* A call of execute_signal(signal) on its own.
ExecuteSignal(signal, inp) ==
    \E r \in {execute_signal(asset_positions, instrument_specs, account_balance,
                             signal, now, inp)} :
        /\ asset_positions' = r.positions
        /\ instrument_specs' = r.specs
        /\ last' = [LastDefault EXCEPT
                      !.op = "execute_signal", !.asset = signal.asset,
                      !.symbol = Symbol(signal.asset), !.signal = signal,
                      !.price = signal.price, !.target = r.leveraged_value,
                      !.attempts = r.attempts, !.opened = r.opened,
                      !.before = asset_positions[signal.asset],
                      !.balance = inp.balance,
                      !.notification =
                          IF r.opened
                          THEN Some([type |-> "entry", delivered |-> inp.delivered])
                          ELSE None]
        /\ UNCHANGED <<daily_reset_log, previous_regimes, exchange_klines, alert_vars, throttle_vars, lock_vars,
                       current_regimes, previous_prices, previous_emas,
                       recent_cross_events, daily_cross_count, account_balance,
                       last_daily_reset, running, pc, now, signals>>

(***************************************************************************)
(* Strategy engine: exits                                                  *)
(***************************************************************************)
\* should_exit_position(asset, current_price, current_time) -> bool: FALSE
\* without a position; else TRUE when the position is older than 24 hours,
\* when pnl_pct <= -1.5 or when pnl_pct >= 6.0, with
\* pnl_pct = (entry_price - current_price) / entry_price * 100 (compared here
\* after multiplying through by 10 * entry_price).
should_exit_position(positions, asset, current_price, current_time) ==
    LET position == positions[asset]
        entry_price == position.entry_price
        pnl_times_10 == (entry_price - current_price) * 1000
    IN  IF ~position.in_position THEN FALSE
        ELSE IF position.entry_time # None
                /\ current_time - Val(position.entry_time) > max_hold_minutes THEN TRUE
        ELSE IF pnl_times_10 <= -15 * entry_price THEN TRUE
        ELSE IF pnl_times_10 >= 60 * entry_price THEN TRUE
        ELSE FALSE

\* The methods MultiAssetStrategyEngine defines.
StrategyEngineMethods ==
    {"update_position", "determine_market_regime", "detect_price_ema_crosses",
     "update_market_data_history", "is_alert_on_cooldown", "add_alert",
     "detect_market_alerts", "has_recent_price_ema_cross", "generate_asset_signal",
     "should_exit_position", "reset_daily_cross_counts", "cleanup_old_cross_events",
     "get_portfolio_summary"}

\* Calling a method the engine does not define raises AttributeError.
raises_attribute_error(method) == method \notin StrategyEngineMethods

\* The parameters of should_exit_position after self, and what it returns.
should_exit_position_parameters == <<"asset", "current_price", "current_time">>
should_exit_position_returns == "bool"
\* The arguments check_position_exits passes to it, and what it unpacks the
\* result into.
exit_call_arguments == <<"asset", "current_price", "now", "current_regime">>
exit_call_unpacks == "pair"

\* The call raises TypeError when the argument count does not fit or the
\* result cannot be unpacked.
exit_call_raises ==
    \/ Len(exit_call_arguments) # Len(should_exit_position_parameters)
    \/ should_exit_position_returns # exit_call_unpacks

(***************************************************************************)
(* Trading system: startup and the main loop                               *)
(***************************************************************************)
\* The clock counts minutes from 1 January 00:00 UTC of a year that is not a
\* leap year; these are the fields datetime gives an instant.
days_in_month == <<31, 28, 31, 30, 31, 30, 31, 31, 30, 31, 30, 31>>
days_in_year == SeqSum(days_in_month)
DayOf(t) == t \div 1440
MinuteOfDay(t) == t % 1440
HourOf(t) == MinuteOfDay(t) \div 60
MinuteOf(t) == t % 60
YearOf(t) == DayOf(t) \div days_in_year
RECURSIVE month_and_day(_, _)
month_and_day(day_of_year, month) ==
    IF day_of_year < days_in_month[month]
    THEN [month |-> month, day |-> day_of_year + 1]
    ELSE month_and_day(day_of_year - days_in_month[month], month + 1)
MonthOf(t) == month_and_day(DayOf(t) % days_in_year, 1).month
DayOfMonth(t) == month_and_day(DayOf(t) % days_in_year, 1).day
RECURSIVE days_before_month(_)
days_before_month(month) ==
    IF month = 1 THEN 0 ELSE days_before_month(month - 1) + days_in_month[month - 1]

\* now.replace(day=, hour=, minute=, second=0, microsecond=0): the instant
\* with these fields in the year and month of t; None when the month has no
\* such day (replace raises ValueError).
replace(t, day, hour, minute) ==
    IF day > days_in_month[MonthOf(t)] THEN None
    ELSE Some(((YearOf(t) * days_in_year + days_before_month(MonthOf(t)) + day - 1) * 24
               + hour) * 60 + minute)

\* get_next_5min_close_time() at time t: Some(next close), or None when it
\* raises.
get_next_5min_close_time(t) ==
    LET minutes == MinuteOf(t)
        next_5min == ((minutes \div 5) + 1) * 5
    IN  IF next_5min >= 60
        THEN IF HourOf(t) + 1 >= 24
             THEN replace(t, DayOfMonth(t) + 1, 0, 0)
             ELSE replace(t, DayOfMonth(t), HourOf(t) + 1, 0)
        ELSE replace(t, DayOfMonth(t), HourOf(t), next_5min)

\* A call of get_next_5min_close_time() on its own.
GetNext5minCloseTime ==
    /\ last' = [LastDefault EXCEPT !.op = "get_next_5min_close_time", !.time = now,
                                   !.next_close = get_next_5min_close_time(now)]
    /\ UNCHANGED <<asset_positions, current_regimes, previous_prices, previous_emas,
                   recent_cross_events, daily_cross_count, instrument_specs,
                   account_balance, last_daily_reset, running, pc, now, signals,
                   daily_reset_log, previous_regimes, exchange_klines, alert_vars, throttle_vars, lock_vars>>

\* asyncio.sleep(10) after an exception in the main loop; the clock shows
\* the same minute or the next one after a sleep of less than a minute.
pause_seconds == 10
after_sleep(t, seconds) == {t + d : d \in 0..((seconds + 59) \div 60)}

\* get_market_data(asset): the bars of get_klines(symbol, '5', 1000) as the
\* gateway returned them, each [start, close, volume] with start the minute
\* the bar opened.  Fewer than 600 bars raise ValueError (None).  The list
\* is reversed, whatever its order; the price is the last close of the
\* reversed list, the volume is that of the first bar returned, and both
\* averages are calculate_ema of the reversed closes (a function of that
\* list and the period), kept here as the list itself.
min_klines == 600
bar_minutes == 5
Reverse(s) == [i \in 1..Len(s) |-> s[Len(s) + 1 - i]]
Kline(start, close, volume) == [start |-> start, close |-> close, volume |-> volume]

get_market_data(asset, klines, t) ==
    IF Len(klines) < min_klines
    THEN None
    ELSE LET reversed == Reverse(klines)
             closes == [i \in 1..Len(reversed) |-> reversed[i].close]
         IN  Some([asset |-> asset,
                   price |-> closes[Len(closes)],
                   closes |-> closes,
                   volume |-> klines[1].volume,
                   timestamp |-> t])

\* A call of get_market_data(asset) on its own.
GetMarketData(a) ==
    /\ \E klines \in {exchange_klines} :
       \E r \in {get_market_data(a, klines, now)} :
          last' = IF r = None
                  THEN [LastDefault EXCEPT
                          !.op = "get_market_data", !.asset = a, !.time = now,
                          !.klines = klines, !.outcome = "ValueError"]
                  ELSE [LastDefault EXCEPT
                          !.op = "get_market_data", !.asset = a, !.time = now,
                          !.klines = klines, !.outcome = "ok",
                          !.price = Val(r).price, !.closes = Val(r).closes,
                          !.volume = Val(r).volume]
    /\ UNCHANGED <<asset_positions, current_regimes, previous_prices, previous_emas,
                   recent_cross_events, daily_cross_count, instrument_specs,
                   account_balance, last_daily_reset, running, pc, now, signals,
                   previous_regimes, exchange_klines, alert_vars, daily_reset_log, throttle_vars, lock_vars>>

\* The balance initialize_system caches: the USDT wallet balance of the
\* reply, the default when the reply has no account list, else what was
\* cached before.
session_balance(cached_balance, reply) ==
    LET balance_info == get_account_balance(reply)
    IN  IF balance_info.kind = "usdt" THEN balance_info.wallet
        ELSE IF balance_info.kind = "no_list" THEN default_session_balance
        ELSE cached_balance

\* sync_positions(): found[asset] is the list of positions the exchange
\* reports for the asset's symbol (empty when the request fails); every one
\* with a non-zero size is written to the ledger, the last one winning.
RECURSIVE sync_asset_positions(_, _, _, _)
sync_asset_positions(positions, asset, found, t) ==
    IF found = <<>> THEN positions
    ELSE sync_asset_positions(
             IF Head(found).size.n # 0
             THEN update_position(positions, asset, TRUE, Head(found).avgPrice,
                                  Head(found).size, Head(found).positionValue, t)
             ELSE positions,
             asset, Tail(found), t)

RECURSIVE sync_positions(_, _, _, _)
sync_positions(positions, found, i, t) ==
    IF i > Len(AssetOrder) THEN positions
    ELSE sync_positions(sync_asset_positions(positions, AssetOrder[i],
                                             found[AssetOrder[i]], t),
                        found, i + 1, t)

\* The instrument specs initialize_system caches, asset by asset.
RECURSIVE initial_instrument_specs(_, _, _)
initial_instrument_specs(specs, replies, i) ==
    IF i > Len(AssetOrder) THEN specs
    ELSE initial_instrument_specs(
             get_instrument_info(specs, Symbol(AssetOrder[i]), replies[AssetOrder[i]]),
             replies, i + 1)

\* check_daily_reset() at time t: on the first call, and on a later day
\* between 00:01 and 00:59, the counts are reset, events older than 24 hours
\* are dropped and the day is remembered; then the daily report is sent
\* (report_delivered: whether that succeeds).
daily_reset_due_every_tick(last_reset, t) ==
    \/ last_reset = None
    \/ /\ MinuteOfDay(t) \div 60 = 0
       /\ MinuteOfDay(t) % 60 >= 1

daily_reset_due(last_reset, t) ==
    \/ last_reset = None
    \/ /\ Val(last_reset) # DayOf(t)
       /\ MinuteOfDay(t) \div 60 = 0
       /\ MinuteOfDay(t) % 60 >= 1

check_daily_reset(eng, last_reset, t, report_delivered) ==
    IF daily_reset_due(last_reset, t)
    THEN after_notification(
             [eng |-> eng, last_daily_reset |-> last_reset],
             [eng |-> cleanup_old_cross_events(reset_daily_cross_counts(eng), t),
              last_daily_reset |-> Some(DayOf(t))],
             report_delivered)
    ELSE [eng |-> eng, last_daily_reset |-> last_reset]

\* The per-asset processing of one tick from asset number i on: snapshots[a]
\* is None when get_market_data raises, else Some(snapshot).  The signal is
\* stored in signals[a]; the call of check_regime_change that follows raises
\* when the engine has no such method, and the handler then stores None.
\* generated keeps what generate_asset_signal returned.
RECURSIVE process_assets(_, _, _, _, _, _)
process_assets(eng, snapshots, t, i, sigs, generated) ==
    IF i > Len(AssetOrder) THEN [eng |-> eng, signals |-> sigs, generated |-> generated]
    ELSE LET a == AssetOrder[i]
         IN  IF snapshots[a] = None
             THEN process_assets(eng, snapshots, t, i + 1,
                                 [sigs EXCEPT ![a] = None], generated)
             ELSE Bind(generate_asset_signal(eng, Val(snapshots[a]), t),
                       LAMBDA r :
                  process_assets(
                      r.eng, snapshots, t, i + 1,
                      [sigs EXCEPT ![a] = IF raises_attribute_error("check_regime_change")
                                          THEN None ELSE Some(r.signal)],
                      [generated EXCEPT ![a] = r.signal]))

\* Whether the execution phase calls execute_signal for this entry of signals.
is_entry_signal(sig) == sig # None /\ Val(sig).signal_type = "ENTER_SHORT"

\* The execution phase of one tick from asset number i on: execute_signal for
\* every stored ENTER_SHORT signal; inputs[a] is what the exchange does
\* during the entry of asset a.
RECURSIVE execute_signals(_, _, _, _, _, _, _, _)
execute_signals(positions, specs, cached_balance, sigs, t, inputs, i, entries) ==
    IF i > Len(AssetOrder) THEN [positions |-> positions, specs |-> specs, entries |-> entries]
    ELSE LET a == AssetOrder[i]
         IN  IF is_entry_signal(sigs[a])
             THEN Bind(execute_signal(positions, specs, cached_balance, Val(sigs[a]), t,
                                      inputs[a]),
                       LAMBDA r :
                  execute_signals(r.positions, r.specs, cached_balance, sigs, t, inputs,
                                  i + 1, [entries EXCEPT ![a] = r.attempts]))
             ELSE execute_signals(positions, specs, cached_balance, sigs, t, inputs,
                                  i + 1, entries)

\* get_positions(symbol): reply is None when the request fails; the
\* exception is caught and the empty list returned.
PositionEntry(size, side) == [size |-> size, side |-> side]
get_positions(reply) == IF reply = None THEN <<>> ELSE Val(reply)

\* The signed sum close_position builds from the listed positions (lots).
RECURSIVE total_size(_, _)
total_size(positions, i) ==
    IF i > Len(positions) THEN 0
    ELSE (IF positions[i].size = 0 THEN 0
          ELSE IF positions[i].side = "Buy" THEN positions[i].size
          ELSE 0 - positions[i].size)
         + total_size(positions, i + 1)

\* close_position(symbol): reads the positions, returns 'no_position' when
\* their sizes sum to zero, and else submits a reduce-only market order of
\* the opposite side through place_order; an exception of place_order is
\* logged and raised again.
close_position(specs, symbol, reply, fetch_reply, exchange_ok) ==
    LET total == total_size(get_positions(reply), 1)
        close_qty == IF total > 0 THEN total ELSE 0 - total
    IN  IF total = 0
        THEN [status |-> "no_position", specs |-> specs, ok |-> TRUE]
        ELSE Bind(place_order(specs, symbol, QInt(close_qty), None, fetch_reply,
                              exchange_ok),
                  LAMBDA order :
             [status |-> IF order.sent /\ order.ok THEN "closed" ELSE "raise",
              specs |-> order.specs, ok |-> order.sent /\ order.ok])

\* The P&L check_position_exits computes for a short closed at price.
realized_pnl(position, price) ==
    Q((position.entry_price - price) * position.asset_amount.n, position.asset_amount.d)

\* check_position_exits(), the block under `if should_exit:` for one asset:
\* close_position (close_ok: whether it succeeds), the P&L, the ledger record
\* cleared by update_position(asset, False), apply_quick_exit_cooldown when
\* the record had an entry time, and the exit notification.  An exception
\* inside the block is caught by its own handler: a failed close leaves the
\* record as it is, and a call of a method the engine does not define comes
\* after the record is cleared and before the notification.
exit_position(eng, a, md, close_ok, t) ==
    LET position_data == eng.asset_positions[a]
        closed == [eng EXCEPT !.asset_positions =
                      update_position(eng.asset_positions, a, FALSE, 0, QInt(0), 0, t)]
    IN  IF ~close_ok
        THEN [eng |-> eng, outcome |-> "close failed", notification |-> None]
        ELSE IF position_data.entry_time # None
                /\ raises_attribute_error("apply_quick_exit_cooldown")
        THEN [eng |-> closed, outcome |-> "AttributeError", notification |-> None]
        ELSE [eng |-> closed, outcome |-> "exit",
              notification |-> Some([asset |-> a, price |-> md.price,
                                     pnl |-> realized_pnl(position_data, md.price)])]

\* check_position_exits() from asset number i on.  Assets without a position
\* are skipped.  For one with a position the market data is fetched
\* (exit_snapshots[a], None when that raises), its regime is determined (and
\* stored) and should_exit_position is called; an exception of the fetch or
\* of the call leaves the loop and the method.  When the call returns TRUE
\* the exit block runs.
RECURSIVE check_position_exits(_, _, _, _, _, _)
check_position_exits(eng, exit_snapshots, close_ok, t, i, exits) ==
    IF i > Len(AssetOrder) THEN [eng |-> eng, exits |-> exits]
    ELSE LET a == AssetOrder[i]
             md == Val(exit_snapshots[a])
             seen == [eng EXCEPT !.current_regimes[a] = determine_market_regime(md)]
         IN  IF ~eng.asset_positions[a].in_position
             THEN check_position_exits(eng, exit_snapshots, close_ok, t, i + 1, exits)
             ELSE IF exit_snapshots[a] = None
             THEN [eng |-> eng, exits |-> [exits EXCEPT ![a] = "market data error"]]
             ELSE IF exit_call_raises
             THEN [eng |-> seen, exits |-> [exits EXCEPT ![a] = "TypeError"]]
             ELSE IF ~should_exit_position(seen.asset_positions, a, md.price, t)
             THEN Bind(seen, LAMBDA e :
                  check_position_exits(e, exit_snapshots, close_ok, t, i + 1,
                                       [exits EXCEPT ![a] = "hold"]))
             ELSE Bind(exit_position(seen, a, md, close_ok[a], t), LAMBDA r :
                  check_position_exits(r.eng, exit_snapshots, close_ok, t, i + 1,
                                       [exits EXCEPT ![a] = r.outcome]))

\* initialize_system() and the assignment running = True that follows it in
\* run(): the session balance is cached, the instrument spec of every asset
\* is fetched and the positions found on the exchange are written to the
\* ledger.
InitializeSystem(balance_reply, spec_replies, found) ==
    /\ pc = "run"
    /\ account_balance' = session_balance(account_balance, balance_reply)
    /\ instrument_specs' = initial_instrument_specs(instrument_specs, spec_replies, 1)
    /\ asset_positions' = sync_positions(asset_positions, found, 1, now)
    /\ running' = TRUE
    /\ pc' = "main_loop_start"
    /\ last' = [LastDefault EXCEPT !.op = "initialize_system"]
    /\ UNCHANGED <<daily_reset_log, previous_regimes, exchange_klines, alert_vars, throttle_vars, lock_vars,
                   current_regimes, previous_prices, previous_emas,
                   recent_cross_events, daily_cross_count, last_daily_reset, now,
                   signals>>

\* main_loop() before its loop: wait_for_next_5min_close().
MainLoopStart ==
    /\ pc = "main_loop_start"
    /\ IF get_next_5min_close_time(now) = None
       THEN now' = now /\ pc' = "done"
       ELSE now' = Val(get_next_5min_close_time(now)) /\ pc' = "main_loop"
    /\ last' = [LastDefault EXCEPT !.op = "wait_for_next_5min_close"]
    /\ UNCHANGED <<daily_reset_log, previous_regimes, exchange_klines, alert_vars, throttle_vars, lock_vars,
                   asset_positions, current_regimes, previous_prices, previous_emas,
                   recent_cross_events, daily_cross_count, instrument_specs,
                   account_balance, last_daily_reset, running, signals>>

\* while self.running: the loop condition, tested before every iteration.
loop_condition_ignores_flag(flag) == TRUE

loop_condition(flag) == flag

\* One iteration of the main loop: the daily reset check, the processing of
\* every asset, the execution of the stored signals, the exit check and the
\* wait for the next bar close.
MainLoopTick(snapshots, inputs, exit_snapshots, close_ok) ==
    /\ pc = "main_loop"
    /\ loop_condition(running)
    /\ \E report_delivered \in BOOLEAN :
       \E reset \in {check_daily_reset(Engine, last_daily_reset, now, report_delivered)} :
       \E processed \in {process_assets(reset.eng, snapshots, now, 1,
                                        [a \in Assets |-> None],
                                        [a \in Assets |-> NoSignal])} :
       \E executed \in {execute_signals(processed.eng.asset_positions, instrument_specs,
                                        account_balance, processed.signals, now, inputs,
                                        1, [a \in Assets |-> <<>>])} :
       \E checked \in {check_position_exits(
                           [processed.eng EXCEPT !.asset_positions = executed.positions],
                           exit_snapshots, close_ok, now, 1,
                           [a \in Assets |-> "not checked"])} :
          /\ SetEngine(checked.eng)
          /\ instrument_specs' = executed.specs
          /\ last_daily_reset' = reset.last_daily_reset
          /\ signals' = processed.signals
          /\ IF get_next_5min_close_time(now) = None
             THEN now' \in after_sleep(now, pause_seconds)
             ELSE now' = Val(get_next_5min_close_time(now))
          /\ daily_reset_log' = IF daily_reset_due(last_daily_reset, now)
                                THEN Append(daily_reset_log, now)
                                ELSE daily_reset_log
          /\ last' = [LastDefault EXCEPT
                        !.op = "main_loop_tick", !.time = now,
                        !.snapshots = snapshots,
                        !.generated = processed.generated,
                        !.entries = executed.entries,
                        !.held = executed.positions,
                        !.exit_snapshots = exit_snapshots,
                        !.exits = checked.exits]
    /\ UNCHANGED <<previous_regimes, exchange_klines, alert_vars, throttle_vars, lock_vars, account_balance, running, pc>>

\* The same iteration step by step, so that a signal can arrive between its
\* steps.  The loop condition holds and the body is entered:
MainLoopEnter ==
    /\ pc = "main_loop"
    /\ loop_condition(running)
    /\ pc' = "check_daily_reset"
    /\ last' = [LastDefault EXCEPT !.op = "main_loop_enter", !.time = now]
    /\ UNCHANGED <<daily_reset_log, previous_regimes, exchange_klines, alert_vars, throttle_vars, lock_vars,
                   asset_positions, current_regimes, previous_prices, previous_emas,
                   recent_cross_events, daily_cross_count, instrument_specs,
                   account_balance, last_daily_reset, running, now, signals>>

\* await self.check_daily_reset()
MainLoopCheckDailyReset ==
    /\ pc = "check_daily_reset"
    /\ \E report_delivered \in BOOLEAN :
       \E reset \in {check_daily_reset(Engine, last_daily_reset, now, report_delivered)} :
          /\ SetEngine(reset.eng)
          /\ last_daily_reset' = reset.last_daily_reset
    /\ daily_reset_log' = IF daily_reset_due(last_daily_reset, now)
                          THEN Append(daily_reset_log, now)
                          ELSE daily_reset_log
    /\ pc' = "process_assets"
    /\ last' = [LastDefault EXCEPT !.op = "check_daily_reset", !.time = now]
    /\ UNCHANGED <<previous_regimes, exchange_klines, alert_vars, throttle_vars, lock_vars, instrument_specs, account_balance,
                   running, now, signals>>

\* A call of check_daily_reset() on its own.
CheckDailyReset(report_delivered) ==
    /\ \E reset \in {check_daily_reset(Engine, last_daily_reset, now, report_delivered)} :
          /\ SetEngine(reset.eng)
          /\ last_daily_reset' = reset.last_daily_reset
    /\ daily_reset_log' = IF daily_reset_due(last_daily_reset, now)
                          THEN Append(daily_reset_log, now)
                          ELSE daily_reset_log
    /\ last' = [LastDefault EXCEPT
                  !.op = "check_daily_reset", !.time = now,
                  !.notification =
                      IF daily_reset_due(last_daily_reset, now)
                      THEN Some([type |-> "daily_report", delivered |-> report_delivered])
                      ELSE None]
    /\ UNCHANGED <<previous_regimes, exchange_klines, alert_vars, throttle_vars, lock_vars, instrument_specs, account_balance,
                   running, pc, now, signals>>

\* The loop over the assets that fills the signals dict.
MainLoopProcessAssets(snapshots) ==
    /\ pc = "process_assets"
    /\ \E processed \in {process_assets(Engine, snapshots, now, 1,
                                        [a \in Assets |-> None],
                                        [a \in Assets |-> NoSignal])} :
          /\ SetEngine(processed.eng)
          /\ signals' = processed.signals
          /\ last' = [LastDefault EXCEPT !.op = "process_assets", !.time = now,
                                         !.snapshots = snapshots,
                                         !.generated = processed.generated]
    /\ pc' = "execute_signals"
    /\ UNCHANGED <<daily_reset_log, previous_regimes, exchange_klines, alert_vars, throttle_vars, lock_vars, instrument_specs,
                   account_balance, last_daily_reset, running, now>>

\* The loop over the signals dict that executes the entry signals.
MainLoopExecuteSignals(inputs) ==
    /\ pc = "execute_signals"
    /\ \E executed \in {execute_signals(asset_positions, instrument_specs,
                                        account_balance, signals, now, inputs,
                                        1, [a \in Assets |-> <<>>])} :
          /\ asset_positions' = executed.positions
          /\ instrument_specs' = executed.specs
          /\ last' = [LastDefault EXCEPT !.op = "execute_signals", !.time = now,
                                         !.entries = executed.entries]
    /\ pc' = "check_position_exits"
    /\ UNCHANGED <<daily_reset_log, previous_regimes, exchange_klines, alert_vars, throttle_vars, lock_vars,
                   current_regimes, previous_prices, previous_emas,
                   recent_cross_events, daily_cross_count, account_balance,
                   last_daily_reset, running, now, signals>>

\* await self.check_position_exits()
MainLoopCheckPositionExits(exit_snapshots, close_ok) ==
    /\ pc = "check_position_exits"
    /\ \E checked \in {check_position_exits(Engine, exit_snapshots, close_ok, now, 1,
                                            [a \in Assets |-> "not checked"])} :
          /\ SetEngine(checked.eng)
          /\ last' = [LastDefault EXCEPT !.op = "check_position_exits", !.time = now,
                                         !.held = asset_positions,
                                         !.exit_snapshots = exit_snapshots,
                                         !.exits = checked.exits]
    /\ pc' = "wait_for_next_5min_close"
    /\ UNCHANGED <<daily_reset_log, previous_regimes, exchange_klines, alert_vars, throttle_vars, lock_vars, instrument_specs,
                   account_balance, last_daily_reset, running, now, signals>>

\* await self.wait_for_next_5min_close() at the end of the body: the clock
\* reaches the next bar close, or get_next_5min_close_time raises and the
\* handler of the loop body catches the exception.
MainLoopWait ==
    /\ pc = "wait_for_next_5min_close"
    /\ IF get_next_5min_close_time(now) = None
       THEN now' = now /\ pc' = "except"
       ELSE now' = Val(get_next_5min_close_time(now)) /\ pc' = "main_loop"
    /\ last' = [LastDefault EXCEPT !.op = "wait_for_next_5min_close", !.time = now]
    /\ UNCHANGED <<daily_reset_log, previous_regimes, exchange_klines, alert_vars, throttle_vars, lock_vars,
                   asset_positions, current_regimes, previous_prices, previous_emas,
                   recent_cross_events, daily_cross_count, instrument_specs,
                   account_balance, last_daily_reset, running, signals>>

MainLoopExcept_leaves_loop ==
    /\ pc = "except"
    /\ pc' = "done"
    /\ last' = [LastDefault EXCEPT !.op = "except", !.time = now]
    /\ UNCHANGED <<daily_reset_log, previous_regimes, exchange_klines, alert_vars, throttle_vars, lock_vars,
                   asset_positions, current_regimes, previous_prices, previous_emas,
                   recent_cross_events, daily_cross_count, instrument_specs,
                   account_balance, last_daily_reset, running, now, signals>>

\* except Exception: the error is logged, asyncio.sleep(10), and the loop
\* condition is tested again.
MainLoopExcept ==
    /\ pc = "except"
    /\ now' \in after_sleep(now, pause_seconds)
    /\ pc' = "main_loop"
    /\ last' = [LastDefault EXCEPT !.op = "except", !.time = now]
    /\ UNCHANGED <<daily_reset_log, previous_regimes, exchange_klines, alert_vars, throttle_vars, lock_vars,
                   asset_positions, current_regimes, previous_prices, previous_emas,
                   recent_cross_events, daily_cross_count, instrument_specs,
                   account_balance, last_daily_reset, running, signals>>

\* The exit block of check_position_exits on its own, for an asset whose
\* exit should_exit_position, called with its own parameters, decides.
ExitPosition(a, md, close_ok) ==
    /\ md.asset = a
    /\ md.timestamp = now
    /\ should_exit_position(asset_positions, a, md.price, now)
    /\ \E r \in {exit_position(Engine, a, md, close_ok, now)} :
          /\ SetEngine(r.eng)
          /\ last' = [LastDefault EXCEPT
                        !.op = "exit_position", !.asset = a, !.md = md, !.time = now,
                        !.before = asset_positions[a], !.outcome = r.outcome,
                        !.notification = r.notification]
    /\ UNCHANGED <<daily_reset_log, previous_regimes, exchange_klines, alert_vars, throttle_vars, lock_vars, instrument_specs,
                   account_balance, last_daily_reset, running, pc, now, signals>>

\* The same exit block with close_position in full.  exchange_size is the
\* short the exchange holds for the asset, in lots; the position request
\* lists it when read_ok and fails otherwise.
ClosePositionExit(a, md, exchange_size, read_ok, fetch_reply, exchange_ok) ==
    /\ md.asset = a
    /\ md.timestamp = now
    /\ should_exit_position(asset_positions, a, md.price, now)
    /\ \E close \in {close_position(
                         instrument_specs, Symbol(a),
                         IF read_ok
                         THEN Some(<<PositionEntry(exchange_size,
                                                   IF exchange_size = 0 THEN "None"
                                                   ELSE "Sell")>>)
                         ELSE None,
                         fetch_reply, exchange_ok)} :
       \E r \in {exit_position(Engine, a, md, close.ok, now)} :
          /\ SetEngine(r.eng)
          /\ instrument_specs' = close.specs
          /\ last' = [LastDefault EXCEPT
                        !.op = "close_position_exit", !.asset = a, !.md = md,
                        !.time = now, !.before = asset_positions[a],
                        !.outcome = r.outcome, !.notification = r.notification,
                        !.exchange_size = exchange_size, !.read_ok = read_ok,
                        !.close = close.status]
    /\ UNCHANGED <<daily_reset_log, previous_regimes, exchange_klines, alert_vars, throttle_vars, lock_vars,
                   account_balance, last_daily_reset, running, pc, now, signals>>

\* The loop condition fails: main_loop() returns and run() ends.
MainLoopExit ==
    /\ pc = "main_loop"
    /\ ~loop_condition(running)
    /\ pc' = "done"
    /\ last' = [LastDefault EXCEPT !.op = "main_loop_exit"]
    /\ UNCHANGED <<daily_reset_log, previous_regimes, exchange_klines, alert_vars, throttle_vars, lock_vars,
                   asset_positions, current_regimes, previous_prices, previous_emas,
                   recent_cross_events, daily_cross_count, instrument_specs,
                   account_balance, last_daily_reset, running, now, signals>>

\* signal_handler(signum, frame)
SignalHandler ==
    /\ pc # "done"
    /\ running' = FALSE
    /\ last' = [LastDefault EXCEPT !.op = "signal_handler"]
    /\ UNCHANGED <<daily_reset_log, previous_regimes, exchange_klines, alert_vars, throttle_vars, lock_vars,
                   asset_positions, current_regimes, previous_prices, previous_emas,
                   recent_cross_events, daily_cross_count, instrument_specs,
                   account_balance, last_daily_reset, pc, now, signals>>

(***************************************************************************)
(* SpecDetect: cross detection over every combination of price and         *)
(* averages, operation by operation.                                       *)
(***************************************************************************)
MaxEvents == 3
\* Prices 1..4 against the average pairs (2, 3) and (3, 2): each average is
\* seen from above, at equality and from below, and changes between calls.
DetectPrices == 1..4
DetectEmas == {<<2, 3>>, <<3, 2>>}

DetectGenerate ==
    \E a \in Assets, p \in DetectPrices, e \in DetectEmas :
        /\ GenerateAssetSignal(a, MarketData(a, p, e[1], e[2], now))
        /\ TotalEvents' <= MaxEvents

DetectNext ==
    \/ DetectGenerate
    \/ ResetDailyCrossCounts

SpecDetect == Init /\ [][DetectNext]_vars

(***************************************************************************)
(* SpecSignal: the decision chain of generate_asset_signal, with the clock *)
(* moving and positions opened and closed, up to the daily cross limit.    *)
(***************************************************************************)
MaxSignalEvents == 13
MaxClock == 10
\* Price above both averages (2, 3) and below both.
SignalPrices == {1, 4}

SignalGenerate ==
    \E a \in Assets, p \in SignalPrices :
        /\ GenerateAssetSignal(a, MarketData(a, p, 2, 3, now))
        /\ TotalEvents' <= MaxSignalEvents

SignalOpenPosition ==
    \E a \in Assets :
        /\ ~asset_positions[a].in_position
        /\ UpdatePosition(a, TRUE, 1, QInt(1), 1)

SignalClock ==
    /\ now + recent_cross_window_minutes <= MaxClock
    /\ AdvanceClock(recent_cross_window_minutes)

SignalNext ==
    \/ SignalGenerate
    \/ SignalOpenPosition
    \/ SignalClock

SpecSignal == Init /\ [][SignalNext]_vars

EventTypes(events) == {events[i].type : i \in 1..Len(events)}
IsGenerate(l) == l.op = "generate_asset_signal"

\* C8: on every detect call after the first for an asset, and for each of
\* the two averages independently, a downward cross event is emitted if and
\* only if the price of the immediately preceding call was strictly above
\* that call's average and the current price is strictly below the current
\* average; each type is emitted at most once per call, and the call's
\* snapshot becomes the stored previous observation.
C8_CrossIffStrictTransition ==
    [][ (IsGenerate(last') /\ previous_prices[last'.asset] # None) =>
        LET a == last'.asset
            md == last'.md
            types == EventTypes(last'.cross_events)
        IN  /\ ("PRICE_BELOW_EMA240" \in types) <=>
                  (/\ Val(previous_prices[a]) > Val(previous_emas[a].ema_240)
                   /\ md.price < md.ema_240)
            /\ ("PRICE_BELOW_EMA600" \in types) <=>
                  (/\ Val(previous_prices[a]) > Val(previous_emas[a].ema_600)
                   /\ md.price < md.ema_600)
            /\ Len(last'.cross_events) = Cardinality(types)
            /\ previous_prices'[a] = Some(md.price)
            /\ previous_emas'[a] = [ema_240 |-> Some(md.ema_240),
                                    ema_600 |-> Some(md.ema_600)]
      ]_vars

\* A call after the first that crossed one average and not the other.
C8_Witness ==
    /\ IsGenerate(last)
    /\ ~last.cold_start
    /\ Len(last.cross_events) = 1
    /\ last.cross_events[1].type = "PRICE_BELOW_EMA600"

\* C9: the first snapshot processed for an asset produces no cross event and
\* no EnterShort, whatever its values; it only stores the snapshot and leaves
\* the daily count and the event list of the asset unchanged.
C9_ColdStartNeverSignals ==
    [][ (IsGenerate(last') /\ previous_prices[last'.asset] = None) =>
        LET a == last'.asset
            md == last'.md
        IN  /\ last'.cold_start
            /\ last'.cross_events = <<>>
            /\ last'.signal.signal_type # "ENTER_SHORT"
            /\ previous_prices'[a] = Some(md.price)
            /\ previous_emas'[a] = [ema_240 |-> Some(md.ema_240),
                                    ema_600 |-> Some(md.ema_600)]
            /\ daily_cross_count'[a] = daily_cross_count[a]
            /\ recent_cross_events'[a] = recent_cross_events[a]
      ]_vars

\* A first snapshot with the price below both averages, while the other
\* asset has already recorded a cross.
C9_Witness ==
    /\ IsGenerate(last)
    /\ last.cold_start
    /\ last.md.price < last.md.ema_240
    /\ last.md.price < last.md.ema_600
    /\ \E b \in Assets \ {last.asset} : daily_cross_count[b] > 0

\* C10: each emitted event adds exactly one to the asset's daily count and
\* one entry to its event list (two for a simultaneous cross of both
\* averages), a reset sets every count to zero and nothing else changes a
\* count, so the count is the number of events emitted since the last reset;
\* a detect call for one asset changes neither the count, the event list nor
\* the stored snapshot of another asset.
C10_CountMatchesEmittedEvents ==
    [][ /\ IsGenerate(last') =>
            LET a == last'.asset
                emitted == last'.cross_events
            IN  /\ daily_cross_count'[a] = daily_cross_count[a] + Len(emitted)
                /\ recent_cross_events'[a] = recent_cross_events[a] \o emitted
                /\ \A b \in Assets \ {a} :
                      /\ daily_cross_count'[b] = daily_cross_count[b]
                      /\ recent_cross_events'[b] = recent_cross_events[b]
                      /\ previous_prices'[b] = previous_prices[b]
                      /\ previous_emas'[b] = previous_emas[b]
        /\ last'.op = "reset_daily_cross_counts" =>
            /\ \A b \in Assets : daily_cross_count'[b] = 0
            /\ recent_cross_events' = recent_cross_events
        /\ (~IsGenerate(last') /\ last'.op # "reset_daily_cross_counts") =>
            daily_cross_count' = daily_cross_count
      ]_vars

\* A simultaneous cross of both averages for one asset while the other asset
\* holds a count of its own, after a reset has happened in between.
C10_Witness ==
    /\ IsGenerate(last)
    /\ Len(last.cross_events) = 2
    /\ daily_cross_count[last.asset] = 2
    /\ Len(recent_cross_events[last.asset]) = 3
    /\ \E b \in Assets \ {last.asset} : daily_cross_count[b] = 0 /\ previous_prices[b] # None

\* C21: the regime a classification stores is Active exactly when the
\* snapshot's price is strictly below both averages and Inactive otherwise
\* (equality with either average gives Inactive); it is a function of the
\* snapshot alone, whatever the engine holds before the call.
C21_RegimeActiveIffBelowBothAverages ==
    [][ IsGenerate(last') =>
        LET md == last'.md
        IN  current_regimes'[last'.asset] =
              IF md.price < md.ema_240 /\ md.price < md.ema_600
              THEN "ACTIVE" ELSE "INACTIVE"
      ]_vars

\* A snapshot whose price equals the lower average and is below the other
\* is classified Inactive, on an engine that has seen the asset before and
\* holds cross events for it.
C21_Witness ==
    /\ IsGenerate(last)
    /\ ~last.cold_start
    /\ last.md.price = last.md.ema_240
    /\ last.md.price < last.md.ema_600
    /\ current_regimes[last.asset] = "INACTIVE"
    /\ recent_cross_events[last.asset] # <<>>

\* C4: generate returns EnterShort exactly when all four gates pass, in this
\* order: the asset has no open position, the regime of the snapshot is
\* Active, the daily cross count including the crosses detected by this call
\* is below 12, and the asset's event list holds an event at most 5 minutes
\* old; otherwise it returns NoAction with the reason of the first gate that
\* fails in that order.
C4_EnterShortIffAllGates ==
    [][ IsGenerate(last') =>
        LET a == last'.asset
            md == last'.md
            events == recent_cross_events'[a]
            gate1 == ~asset_positions[a].in_position
            gate2 == md.price < md.ema_240 /\ md.price < md.ema_600
            gate3 == daily_cross_count'[a] < 12
            gate4 == \E i \in 1..Len(events) : now - events[i].timestamp <= 5
        IN  /\ last'.signal.price = md.price
            /\ last'.signal.signal_type =
                  IF gate1 /\ gate2 /\ gate3 /\ gate4 THEN "ENTER_SHORT" ELSE "NO_ACTION"
            /\ last'.signal.reason =
                  IF ~gate1 THEN "in position"
                  ELSE IF ~gate2 THEN "regime not active"
                  ELSE IF ~gate3 THEN "daily cross limit exceeded"
                  ELSE IF ~gate4 THEN "no recent cross"
                  ELSE "cross in active regime"
      ]_vars

\* The daily limit stops an entry that the other three gates let through:
\* no position, Active regime, a cross detected by this very call, and a
\* count that this call has brought to exactly 12.
C4_Witness ==
    /\ IsGenerate(last)
    /\ last.signal.reason = "daily cross limit exceeded"
    /\ daily_cross_count[last.asset] = 12
    /\ Len(last.cross_events) = 2
    /\ ~asset_positions[last.asset].in_position

(***************************************************************************)
(* SpecClient: the sizer, called on its own for every cached spec, target  *)
(* and price of a small grid.                                              *)
(***************************************************************************)
MaxQty == 3
\* Specs the exchange may send: a step of 0 (field missing), 1 or 2 lots, a
\* minimum of 1 or 2 lots, no maximum (0) or one at or above the minimum, a
\* minimum notional of 0, of 15 cents or of 5.00.
ClientSpecs ==
    {InstrumentSpec(mn, mx, st, nt) :
        mn \in 1..2, mx \in {0} \cup 1..MaxQty, st \in 0..2, nt \in {0, 15, 500}}
ClientInstrumentReplies ==
    {None} \cup {Some(sp) : sp \in {s \in ClientSpecs : s.max_order_qty = 0 \/ s.max_order_qty >= s.min_order_qty}}
\* Targets and prices in cents; 7000.00 at 50.00 a lot is the target of a
\* balance of 10000 at 7% and leverage 10 with the price at 50000 and lots
\* of 0.001.
ClientTargets == {5, 15, 35, 700000}
ClientPrices == {10, 20, 5000}
\* Quantities from 0 to above the largest maximum, in halves of a lot.
ClientQuantities == {Q(n, 2) : n \in 0..(2 * MaxQty + 2)}

ClientGetInstrumentInfo ==
    \E reply \in ClientInstrumentReplies : GetInstrumentInfo("BTCUSDT", reply)

ClientCalculateQuantity ==
    \E symbol \in Symbols, target \in ClientTargets, price \in ClientPrices :
        CalculateQuantityForUsdtValue(symbol, target, price)

ClientRoundQuantity ==
    \E symbol \in Symbols, quantity \in ClientQuantities :
        RoundQuantity(symbol, quantity)

ClientValidateOrderParams ==
    \E symbol \in Symbols, quantity \in ClientQuantities,
       price \in {None} \cup {Some(p) : p \in ClientPrices} :
        ValidateOrderParams(symbol, quantity, price)

ClientNext ==
    \/ ClientGetInstrumentInfo
    \/ ClientCalculateQuantity
    \/ ClientRoundQuantity
    \/ ClientValidateOrderParams

SpecClient == Init /\ [][ClientNext]_vars

\* Whether some multiple of the step within [min, max] reaches the minimum
\* notional at this price.
FeasibleQuantities(sp, price) ==
    {k * sp.qty_step : k \in 1..(sp.max_order_qty \div sp.qty_step)} \cap
    {q \in sp.min_order_qty..sp.max_order_qty : q * price >= sp.min_notional}

\* The smallest multiple of the step that is at least n/d.
CeilToStep(q, step) ==
    IF QIsMultiple(q, step) THEN q.n \div q.d ELSE (QFloorSteps(q, step) + 1) * step

IsSizerCall(l) == l.op = "calculate_quantity_for_usdt_value"

\* The sizer was called on a cached spec with a positive step, a maximum at
\* or above the minimum, and a positive target and price.
SizerCallInScope(l) ==
    /\ IsSizerCall(l)
    /\ instrument_specs[l.symbol] # None
    /\ Val(instrument_specs[l.symbol]).qty_step > 0
    /\ Val(instrument_specs[l.symbol]).max_order_qty >= Val(instrument_specs[l.symbol]).min_order_qty
    /\ Val(instrument_specs[l.symbol]).min_notional >= 0
    /\ l.price > 0
    /\ l.target > 0

\* C6: for a cached spec with qty_step > 0, max_qty >= min_qty and
\* min_notional >= 0, a price > 0 and a target > 0 for which a feasible
\* quantity exists, the sizer returns a multiple of qty_step within
\* [min_qty, max_qty] whose notional is at least min_notional; when the
\* floored quantity falls short of min_notional it returns the step-ceiling
\* of min_notional / price.
C6_SizerMeetsConstraintsWhenFeasible ==
    (SizerCallInScope(last) /\ FeasibleQuantities(Val(instrument_specs[last.symbol]), last.price) # {})
    => LET sp == Val(instrument_specs[last.symbol])
           target == IF last.target < sp.min_notional THEN sp.min_notional ELSE last.target
           floored == QFloorSteps(Q(target, last.price), sp.qty_step) * sp.qty_step
       IN  /\ QIsMultiple(last.quantity, sp.qty_step)
           /\ QLe(QInt(sp.min_order_qty), last.quantity)
           /\ QLe(last.quantity, QInt(sp.max_order_qty))
           /\ ~QTimesLt(last.quantity, last.price, sp.min_notional)
           /\ (floored >= sp.min_order_qty /\ floored * last.price < sp.min_notional)
              => last.quantity = QInt(CeilToStep(Q(sp.min_notional, last.price), sp.qty_step))

\* C7: when no multiple of qty_step within [min_qty, max_qty] reaches the
\* minimum notional at the given price, the sizer reports an error: it
\* returns no usable (positive) quantity.
C7_SizerReportsErrorWhenInfeasible ==
    (SizerCallInScope(last) /\ FeasibleQuantities(Val(instrument_specs[last.symbol]), last.price) = {})
    => last.quantity.n <= 0

EntrySpecs == {InstrumentSpec(1, 10, 1, 300), InstrumentSpec(2, 10, 2, 500)}
EntryInstrumentReplies == {None} \cup {Some(sp) : sp \in EntrySpecs}
\* A wallet of 10.01 (a leveraged value of 7.007, rounded to 7.01), a reply
\* without a USDT balance, or a failed request.
EntryBalanceReplies ==
    {BalanceReply("usdt", 1001), BalanceReply("no_usdt", 0), BalanceReply("failed", 0)}
\* The exchange accepts the first, the second or the third submission, or
\* none; nothing is submitted after an accepted one.
EntryOutcomes ==
    {o \in [1..max_retries -> BOOLEAN] :
        \A i \in 1..max_retries : o[i] => \A j \in i..max_retries : o[j]}
EntryPrices == {200}
EntrySignals ==
    {[asset |-> a, signal_type |-> t, reason |-> "", price |-> p, cross_events |-> <<>>] :
        a \in Assets, t \in {"ENTER_SHORT", "NO_ACTION"}, p \in EntryPrices}

EntryGetInstrumentInfo ==
    \E symbol \in Symbols, reply \in EntryInstrumentReplies :
        GetInstrumentInfo(symbol, reply)

EntryExecuteSignal ==
    \E signal \in EntrySignals, balance \in EntryBalanceReplies,
       outcomes \in EntryOutcomes,
       refetch \in [1..(max_retries - 1) -> EntryInstrumentReplies] :
        ExecuteSignal(signal, EntryInput(balance, outcomes, refetch))

\* Orders of one and a half, of three and of twelve lots.
EntryQuantities == {Q(3, 2), QInt(3), QInt(12)}
EntryPlaceOrder ==
    \E symbol \in Symbols, qty \in EntryQuantities,
       fetch_reply \in EntryInstrumentReplies, exchange_ok \in BOOLEAN :
        PlaceOrder(symbol, qty, fetch_reply, exchange_ok)

EntryNext ==
    \/ EntryGetInstrumentInfo
    \/ EntryExecuteSignal
    \/ EntryPlaceOrder

SpecEntry == Init /\ [][EntryNext]_vars

IsExecute(l) == l.op = "execute_signal"
Succeeded(attempts) == \E i \in 1..Len(attempts) : attempts[i].ok

\* C1: every entry order that execute_signal sends, the first and every retry
\* (also after the spec was re-fetched with other values), has a quantity
\* that is a positive multiple of the cached qty_step, lies within
\* [min_qty, max_qty] and has quantity x signal price >= min_notional.
C1_SubmittedQuantitiesMeetSpec ==
    IsExecute(last) =>
        \A i \in 1..Len(last.attempts) :
            LET at == last.attempts[i]
                sp == Val(at.specs)
            IN  at.sent =>
                    /\ at.qty.n > 0
                    /\ QIsMultiple(at.qty, sp.qty_step)
                    /\ QLe(QInt(sp.min_order_qty), at.qty)
                    /\ QLe(at.qty, QInt(sp.max_order_qty))
                    /\ ~QTimesLt(at.qty, last.price, sp.min_notional)

\* C3: an entry makes at most 3 submission attempts; the asset's ledger
\* record becomes in_position if and only if one of them succeeds, and when
\* none succeeds the record is exactly what it was before the entry.
C3_AtMostThreeAttemptsLedgerIffSuccess ==
    IsExecute(last) =>
        /\ Len(last.attempts) <= 3
        /\ \A i \in 1..Len(last.attempts) : last.attempts[i].ok => i = Len(last.attempts)
        /\ last.opened <=> Succeeded(last.attempts)
        /\ Succeeded(last.attempts) =>
              /\ asset_positions[last.asset].in_position
              /\ asset_positions[last.asset].entry_price = last.signal.price
              /\ asset_positions[last.asset].leveraged_value = last.target
              /\ asset_positions[last.asset].entry_time = Some(now)
        /\ ~Succeeded(last.attempts) => asset_positions[last.asset] = last.before
        /\ ~last.before.in_position =>
              (asset_positions[last.asset].in_position <=> Succeeded(last.attempts))

\* Two rejected submissions and an accepted third, which opens the position.
C3_Witness ==
    /\ IsExecute(last)
    /\ Len(last.attempts) = 3
    /\ ~last.attempts[1].ok /\ ~last.attempts[2].ok /\ last.attempts[3].ok
    /\ ~last.before.in_position
    /\ asset_positions[last.asset].in_position

\* C30: an attempt after the first follows a failed attempt, a sleep of one
\* second and a re-fetch of the spec; the raw quantity is valid against the
\* spec cached after the re-fetch and the attempt sends its corrected
\* quantity for that spec.  An entry that stops after a failed attempt that
\* was not the third has found the raw quantity invalid against the
\* re-fetched spec, and opens no position.
C30_RetryRevalidatesAgainstRefetchedSpec ==
    IsExecute(last) =>
        LET raw_quantity == Q(last.target, last.price)
            revalidation(spec) ==
                validate_order_params([instrument_specs EXCEPT ![last.symbol] = spec],
                                      last.symbol, raw_quantity, Some(last.price))
            n == Len(last.attempts)
        IN  /\ \A i \in 2..n :
                  LET before == last.attempts[i - 1]
                      at == last.attempts[i]
                  IN  /\ ~before.ok
                      /\ at.slept = 1
                      /\ at.refetched # None
                      /\ at.specs = IF Val(at.refetched) = None THEN before.specs
                                    ELSE Val(at.refetched)
                      /\ revalidation(at.specs).valid
                      /\ at.sent
                      /\ at.qty = revalidation(at.specs).corrected_qty
            /\ (n >= 1 /\ n < 3 /\ ~last.attempts[n].ok) =>
                  /\ ~revalidation(instrument_specs[last.symbol]).valid
                  /\ ~last.opened
                  /\ asset_positions[last.asset] = last.before

\* A rejected first attempt, a re-fetch that brings another spec, and an
\* accepted second attempt with the quantity corrected for that spec.
C30_Witness ==
    /\ IsExecute(last)
    /\ Len(last.attempts) >= 2
    /\ ~last.attempts[1].ok
    /\ last.attempts[2].specs # last.attempts[1].specs
    /\ last.attempts[2].qty # last.attempts[1].qty
    /\ last.attempts[2].ok

\* C27: an order is sent only for a symbol whose instrument spec is in the
\* cache when it is sent; when the spec is absent and the fetch brings none,
\* place_order raises and sends nothing.
C27_NoOrderWithoutCachedSpec ==
    /\ (IsExecute(last) \/ last.op = "place_order") =>
          \A i \in 1..Len(last.attempts) :
              last.attempts[i].sent => last.attempts[i].specs # None
    /\ (last.op = "place_order" /\ instrument_specs[last.symbol] = None) =>
          /\ ~last.attempts[1].sent
          /\ last.outcome = "ValueError"

\* place_order for a symbol without a cached spec, the fetch failed: nothing
\* was sent, while the other symbol's spec is cached.
C27_Witness ==
    /\ last.op = "place_order"
    /\ instrument_specs[last.symbol] = None
    /\ \E s \in Symbols : instrument_specs[s] # None
    /\ last.raw_quantity = QInt(3)
    /\ ~last.attempts[1].sent

(***************************************************************************)
(* Spec: the program.  run() initializes the system and enters the main    *)
(* loop, which ticks at every bar close until a shutdown signal clears the *)
(* running flag.                                                           *)
(***************************************************************************)
MaxTicks == 2
\* The wallet-balance reply at startup.
StartBalanceReplies ==
    {BalanceReply("usdt", 1001), BalanceReply("no_usdt", 0),
     BalanceReply("no_list", 0), BalanceReply("failed", 0)}
\* The instrument-info reply per asset at startup.
StartSpecReplies == [Assets -> {None, Some(InstrumentSpec(1, 10, 1, 300))}]
\* A position as the exchange lists it.
ExchangePosition(size, avgPrice, positionValue) ==
    [size |-> size, avgPrice |-> avgPrice, positionValue |-> positionValue]
\* The positions the exchange lists per asset at startup: none, an empty one
\* (size 0), or a short of 3 lots entered at 2.00.
StartFound ==
    [Assets -> {<<>>, <<ExchangePosition(QInt(0), 0, 0)>>,
                <<ExchangePosition(QInt(3), 200, 600)>>}]
\* A tick's market data per asset: none (the fetch fails), or a price of 1.88
\* or of 2.03 against averages of 1.90 and 2.01, so that 2.03 followed by
\* 1.88 crosses both averages downwards into the active regime; against an
\* entry at 2.00 the price 2.03 is a loss of 1.5 % and 1.88 a gain of 6 %.
TickPrices == {188, 203}
TickSnapshots ==
    [Assets -> {None}] \cup
    {[a \in Assets |-> Some(MarketData(a, p[a], 190, 201, now))] : p \in [Assets -> TickPrices]} \cup
    {[a \in Assets |-> IF a = b THEN None ELSE Some(MarketData(a, p, 190, 201, now))] :
        b \in Assets, p \in TickPrices}
\* The market data the exit check fetches: the tick's own, or none.
TickExitSnapshots(snapshots) == {snapshots, [a \in Assets |-> None]}

\* The signals dict the asset processing of this tick ends with.
tick_signals(snapshots) ==
    process_assets(check_daily_reset(Engine, last_daily_reset, now, TRUE).eng, snapshots,
                   now, 1, [a \in Assets |-> None], [a \in Assets |-> NoSignal]).signals

\* What the exchange does during the entries of a tick; one fixed value when
\* the tick stores no entry signal and execute_signal is not called.
TickEntryInputs(snapshots) ==
    IF \E a \in Assets : is_entry_signal(tick_signals(snapshots)[a])
    THEN [Assets -> {EntryInput(b, o, r) : b \in EntryBalanceReplies, o \in EntryOutcomes,
                                          r \in [1..(max_retries - 1) -> EntryInstrumentReplies]}]
    ELSE {[a \in Assets |-> EntryInput(BalanceReply("failed", 0),
                                       [i \in 1..max_retries |-> FALSE],
                                       [i \in 1..(max_retries - 1) |-> None])]}

\* Whether close_position succeeds per asset; one fixed value when the exit
\* call raises and close_position is not called.
TickCloseOutcomes ==
    IF exit_call_raises THEN {[a \in Assets |-> FALSE]} ELSE [Assets -> BOOLEAN]

Start ==
    \E balance_reply \in StartBalanceReplies, spec_replies \in StartSpecReplies,
       found \in StartFound :
        InitializeSystem(balance_reply, spec_replies, found)

Tick ==
    /\ now <= MaxTicks * 5
    /\ \E snapshots \in TickSnapshots :
         \E inputs \in TickEntryInputs(snapshots),
            exit_snapshots \in TickExitSnapshots(snapshots),
            close_ok \in TickCloseOutcomes :
             MainLoopTick(snapshots, inputs, exit_snapshots, close_ok)

Next ==
    \/ Start
    \/ MainLoopStart
    \/ Tick
    \/ MainLoopExit
    \/ SignalHandler

Spec == Init /\ [][Next]_vars

IsTick(l) == l.op = "main_loop_tick"

\* C2: in every tick, for an asset whose ledger record is in_position when
\* the tick starts, the generator returns NoAction ("in position"), no entry
\* signal is stored and no entry order is attempted for it, and its record
\* is not overwritten: it is the same after the tick unless an exit cleared
\* it.
C2_NoEntryWhileInPosition ==
    [][ IsTick(last') =>
        \A a \in Assets :
            asset_positions[a].in_position =>
                /\ last'.generated[a].signal_type \in {"NONE", "NO_ACTION"}
                /\ last'.generated[a].signal_type = "NO_ACTION" =>
                       last'.generated[a].reason = "in position"
                /\ ~is_entry_signal(signals'[a])
                /\ last'.entries[a] = <<>>
                /\ \/ asset_positions'[a] = asset_positions[a]
                   \/ ~asset_positions'[a].in_position
      ]_vars

\* A tick in which an asset with a position synced at startup crosses both
\* averages downwards into the active regime, and gets NoAction.
C2_Witness ==
    /\ IsTick(last)
    /\ \E a \in Assets :
        /\ last.held[a].in_position
        /\ asset_positions[a].in_position
        /\ Len(last.generated[a].cross_events) = 2
        /\ current_regimes[a] = "ACTIVE"
        /\ last.generated[a].signal_type = "NO_ACTION"

stop_loss_pct == 15
take_profit_pct == 60

\* The exit decision as stated for a position, a price and a time: the first
\* of TimeLimit (older than 24 hours), StopLoss (pnl_pct <= -stop_loss_pct *
\* 100) and TakeProfit (pnl_pct >= take_profit_pct * 100) that applies, with
\* the configured percentages (kept in thousandths).
StatedExitDecision(position, price, t) ==
    LET pnl_times_10 == (position.entry_price - price) * 1000
    IN  IF ~position.in_position THEN "none"
        ELSE IF position.entry_time # None /\ t - Val(position.entry_time) > max_hold_minutes
        THEN "TimeLimit"
        ELSE IF pnl_times_10 <= -stop_loss_pct * position.entry_price THEN "StopLoss"
        ELSE IF pnl_times_10 >= take_profit_pct * position.entry_price THEN "TakeProfit"
        ELSE "hold"

\* C5: in every tick, an asset without a position is never exited, and for
\* an asset with an open position whose market data is available the exit
\* evaluator decides to exit exactly when one of the triggers TimeLimit,
\* StopLoss, TakeProfit applies (at the configured percentages).
C5_ExitDecisionMatchesTriggers ==
    IsTick(last) =>
        \A a \in Assets :
            /\ ~last.held[a].in_position => last.exits[a] = "not checked"
            /\ (last.held[a].in_position /\ last.exit_snapshots[a] # None) =>
                  LET stated == StatedExitDecision(last.held[a],
                                                   Val(last.exit_snapshots[a]).price,
                                                   last.time)
                  IN  IF stated = "hold"
                      THEN last.exits[a] = "hold"
                      ELSE last.exits[a] \in {"exit", "close failed"}

\* C22: a tick that classifies an asset stores the snapshot's regime as the
\* asset's current regime and keeps the regime it replaces as the asset's
\* previous regime, and it changes neither regime of an asset it did not
\* classify.
C22_ClassificationRetainsPreviousRegime ==
    [][ IsTick(last') =>
        \A a \in Assets :
            IF last'.snapshots[a] # None
            THEN /\ current_regimes'[a] = determine_market_regime(Val(last'.snapshots[a]))
                 /\ previous_regimes'[a] = Some(current_regimes[a])
            ELSE /\ current_regimes'[a] = current_regimes[a]
                 /\ previous_regimes'[a] = previous_regimes[a]
      ]_vars

\* C14: in every tick, each asset with an open position whose market data
\* is available is exit-evaluated, and when the evaluator decides to exit
\* the close order is submitted; when it succeeds the ledger record is
\* cleared within the tick (not in position, no entry time) and the exit is
\* notified with the realized P&L.
C14_OpenPositionsAreExitEvaluated ==
    IsTick(last) =>
        \A a \in Assets :
            (last.held[a].in_position /\ last.exit_snapshots[a] # None) =>
                /\ last.exits[a] \in {"hold", "exit", "close failed"}
                /\ should_exit_position(last.held, a, Val(last.exit_snapshots[a]).price,
                                        last.time)
                       => last.exits[a] \in {"exit", "close failed"}
                /\ last.exits[a] = "exit" =>
                       /\ ~asset_positions[a].in_position
                       /\ asset_positions[a].entry_time = None

\* C15: in every tick, whatever fails for another asset, an asset whose
\* market data is available gets its signal generated, and an asset with an
\* open position whose market data is available is exit-evaluated.
C15_AssetFailuresAreIsolated ==
    IsTick(last) =>
        \A a \in Assets :
            /\ last.snapshots[a] # None => last.generated[a].signal_type # "NONE"
            /\ (last.held[a].in_position /\ last.exit_snapshots[a] # None) =>
                   last.exits[a] # "not checked"

(***************************************************************************)
(* SpecClock: get_next_5min_close_time at the first and the last day of    *)
(* every month, in the first and the last hour of the day.                 *)
(***************************************************************************)
ClockMinutes == {0, 1, 4, 5, 54, 55, 57, 59}
ClockInstants ==
    UNION {{((days_before_month(month) + day - 1) * 24 + hour) * 60 + minute :
               day \in {1, days_in_month[month]}, hour \in {0, 12, 23},
               minute \in ClockMinutes} :
           month \in 1..Len(days_in_month)}
ClockInit == \E t \in ClockInstants : InitAt(t)
ClockNext == GetNext5minCloseTime
SpecClock == ClockInit /\ [][ClockNext]_vars

\* C17: get_next_5min_close_time returns, without raising, the smallest
\* instant later than now whose minute is a multiple of five, so that the
\* wait is longer than zero and at most five minutes.
C17_NextCloseIsNextFiveMinuteBoundary ==
    last.op = "get_next_5min_close_time" =>
        /\ last.next_close # None
        /\ Val(last.next_close) > last.time
        /\ Val(last.next_close) - last.time <= 5
        /\ MinuteOf(Val(last.next_close)) % 5 = 0

(***************************************************************************)
(* SpecCooldown: the engine and the exit block, one operation at a time as *)
(* the scheduler orders them: at each bar close a signal is generated for  *)
(* an asset, the ledger records the entry an EnterShort signal leads to,   *)
(* and the exit block closes a position the evaluator decides to exit.     *)
(***************************************************************************)
MaxCooldownClock == 20
\* The hold below which the exit block calls a closed trade quick, minutes.
quick_exit_threshold_minutes == 60

\* wait_for_next_5min_close() and then generate_asset_signal for one asset.
CooldownTick ==
    \E a \in Assets, p \in SignalPrices :
    \E t \in {Val(get_next_5min_close_time(now))} :
    \E r \in {generate_asset_signal(Engine, MarketData(a, p, 2, 3, t), t)} :
        /\ t <= MaxCooldownClock
        /\ now' = t
        /\ SetEngine(r.eng)
        /\ last' = [LastDefault EXCEPT
                      !.op = "generate_asset_signal", !.asset = a,
                      !.md = MarketData(a, p, 2, 3, t), !.time = t,
                      !.cold_start = (previous_prices[a] = None),
                      !.cross_events = r.cross_events, !.signal = r.signal]
        /\ UNCHANGED <<daily_reset_log, previous_regimes, exchange_klines, alert_vars, throttle_vars, lock_vars, instrument_specs,
                       account_balance, last_daily_reset, running, pc, signals>>

\* The ledger update of execute_signal for the EnterShort signal just
\* generated (one lot at the signal's price).
CooldownEnter ==
    /\ IsGenerate(last)
    /\ last.signal.signal_type = "ENTER_SHORT"
    /\ ~asset_positions[last.asset].in_position
    /\ UpdatePosition(last.asset, TRUE, last.signal.price, QInt(1), last.signal.price)

\* The exit check reads the bar the tick has generated the signal from.
CooldownExit ==
    \E a \in Assets, close_ok \in BOOLEAN :
        /\ previous_prices[a] # None
        /\ ExitPosition(a, MarketData(a, Val(previous_prices[a]), 2, 3, now), close_ok)

CooldownNext ==
    \/ CooldownTick
    \/ CooldownEnter
    \/ CooldownExit

SpecCooldown == Init /\ [][CooldownNext]_vars

\* C13: at the bar close that follows the exit of a position held for less
\* than the quick-exit threshold, no EnterShort signal is generated for that
\* asset (a cooldown window of at least one bar interval has not elapsed).
C13_NoEnterShortAfterQuickExit ==
    [][ (/\ last.op = "exit_position"
         /\ last.outcome # "close failed"
         /\ last.before.entry_time # None
         /\ last.time - Val(last.before.entry_time) < quick_exit_threshold_minutes
         /\ IsGenerate(last')
         /\ last'.asset = last.asset)
        => last'.signal.signal_type # "ENTER_SHORT"
      ]_vars

(***************************************************************************)
(* SpecLoop: the scheduler, step by step, from the evening of 30 January   *)
(* over the end of the month.  The exchange answers the market data       *)
(* requests of the signal loop only at 23:55 and at 00:00, and only for    *)
(* BTC; at other times get_market_data raises for every asset.             *)
(***************************************************************************)
MaxLoopDays == 1
MaxLoopEvents == 2
\* The instants at which the process starts: 30 January 23:43 (first tick
\* at 23:45), 30 January 23:57 (first tick at 00:00) and 31 January 23:57.
LoopStartTimes ==
    {Val(replace(0, 30, 23, 43)), Val(replace(0, 30, 23, 57)), Val(replace(0, 31, 23, 57))}
\* No tick starts after 00:10 of the day MaxLoopDays after 31 January.
LoopHorizon == Val(replace(0, 31, 0, 10)) + MaxLoopDays * 1440
LoopFound ==
    {[a \in Assets |-> <<>>], [a \in Assets |-> <<ExchangePosition(QInt(3), 200, 600)>>]}
\* The market data of a tick: the exchange answers only for BTC, at 23:55
\* with a price of 2.03 and at 00:00 with 2.03 or (while the engine holds
\* fewer than MaxLoopEvents cross events) 1.88.
loop_btc_prices(t) ==
    IF MinuteOfDay(t) = 1440 - 5 THEN {203}
    ELSE IF MinuteOfDay(t) = 0
    THEN (IF TotalEvents < MaxLoopEvents THEN TickPrices ELSE {203})
    ELSE {}
LoopSnapshots ==
    IF loop_btc_prices(now) = {}
    THEN {[a \in Assets |-> None]}
    ELSE {[a \in Assets |-> IF a = "BTC" THEN Some(MarketData(a, p, 190, 201, now)) ELSE None] :
             p \in loop_btc_prices(now)}
LoopExitSnapshots ==
    {[a \in Assets |-> None]} \cup
    IF \E a \in Assets : asset_positions[a].in_position
    THEN {[a \in Assets |-> Some(MarketData(a, 203, 190, 201, now))]}
    ELSE {}

LoopInit == \E t \in LoopStartTimes : InitAt(t)
LoopStart ==
    \E found \in LoopFound :
        InitializeSystem(BalanceReply("usdt", 1001),
                         [a \in Assets |-> Some(InstrumentSpec(1, 10, 1, 300))], found)
LoopEnter == now <= LoopHorizon /\ MainLoopEnter
LoopProcessAssets == \E snapshots \in LoopSnapshots : MainLoopProcessAssets(snapshots)
LoopExecuteSignals ==
    \E inputs \in TickEntryInputs([a \in Assets |-> None]) : MainLoopExecuteSignals(inputs)
LoopCheckPositionExits ==
    \E exit_snapshots \in LoopExitSnapshots, close_ok \in TickCloseOutcomes :
        MainLoopCheckPositionExits(exit_snapshots, close_ok)

\* The steps of run() and of the main loop.
LoopStep ==
    \/ LoopStart
    \/ MainLoopStart
    \/ LoopEnter
    \/ MainLoopCheckDailyReset
    \/ LoopProcessAssets
    \/ LoopExecuteSignals
    \/ LoopCheckPositionExits
    \/ MainLoopWait
    \/ MainLoopExcept
    \/ MainLoopExit

LoopNext ==
    \/ LoopStep
    \/ SignalHandler

SpecLoop == LoopInit /\ [][LoopNext]_vars

\* The event loop keeps running the coroutine: a step of run() that can be
\* taken is taken.
SpecLoopFair == SpecLoop /\ WF_vars(LoopStep)

\* The steps of an iteration that follow the daily reset check.
AfterResetCheck ==
    {"process_assets", "execute_signals", "check_position_exits",
     "wait_for_next_5min_close", "except"}

\* C11: the scheduler resets the daily cross counters exactly once per UTC
\* date: no two resets are logged for the same date; once the reset check of
\* a tick at or after 00:01 has run, a reset of that tick's date is logged;
\* and every logged reset zeroes the counters of all assets.
C11_DailyResetExactlyOncePerDate ==
    /\ [](\A i, j \in 1..Len(daily_reset_log) :
            i # j => DayOf(daily_reset_log[i]) # DayOf(daily_reset_log[j]))
    /\ []((pc \in AfterResetCheck /\ MinuteOfDay(now) >= 1) =>
            \E i \in 1..Len(daily_reset_log) : DayOf(daily_reset_log[i]) = DayOf(now))
    /\ [][daily_reset_log' # daily_reset_log =>
            /\ daily_reset_log' = Append(daily_reset_log, now)
            /\ \A a \in Assets : daily_cross_count'[a] = 0]_vars

\* Three dates have been ticked through, each with its one reset; the third
\* reset has zeroed the count of the crosses detected at midnight (their
\* events are still stored), and a later tick of the third date has passed
\* its reset check without a reset.
C11_Witness ==
    /\ Len(daily_reset_log) >= 3
    /\ DayOf(daily_reset_log[3]) = DayOf(daily_reset_log[1]) + 2
    /\ pc = "process_assets"
    /\ now > daily_reset_log[3]
    /\ TotalEvents > 0
    /\ \A a \in Assets : daily_cross_count[a] = 0

\* C12: every reset the scheduler performs happens at or after 00:01 UTC of
\* its date, the reset of the first tick after process start included.
C12_ResetNotBeforeOneMinutePastMidnight ==
    \A i \in 1..Len(daily_reset_log) : MinuteOfDay(daily_reset_log[i]) >= 1

\* The positions of run() inside main_loop(), and the steps of the loop
\* body in their order.
InMainLoop ==
    {"main_loop_start", "main_loop", "check_daily_reset", "process_assets",
     "execute_signals", "check_position_exits", "wait_for_next_5min_close", "except"}
NextInBody(p) ==
    CASE p = "check_daily_reset" -> {"process_assets"}
      [] p = "process_assets" -> {"execute_signals"}
      [] p = "execute_signals" -> {"check_position_exits"}
      [] p = "check_position_exits" -> {"wait_for_next_5min_close"}
      [] p = "wait_for_next_5min_close" -> {"main_loop", "except"}
      [] p = "except" -> {"main_loop"}
      [] OTHER -> {}

\* C16: the signal handler only clears the flag; with the flag cleared
\* during the loop, a tick in progress still takes every step of the body up
\* to the wait that ends it, the flag stays cleared, no new tick is entered,
\* and the loop terminates.
C16_ShutdownCompletesTickAndTerminates ==
    /\ [][(running /\ ~running') => pc' = pc]_vars
    /\ [][(NextInBody(pc) # {} /\ pc' # pc)
            => pc' \in NextInBody(pc)]_vars
    /\ [][(~running /\ pc \in InMainLoop) => (~running' /\ pc' # "check_daily_reset")]_vars
    /\ ((~running /\ pc \in InMainLoop) ~> (pc = "done"))

\* The flag was cleared during a tick, and the tick has gone on to run its
\* exit check over the open positions.
C16_Witness ==
    /\ ~running
    /\ pc = "wait_for_next_5min_close"
    /\ last.op = "check_position_exits"
    /\ \E a \in Assets : last.exits[a] # "not checked"

\* C18: an exception caught by the handler of the loop body is followed by
\* the pause and the loop condition, never by the end of the loop; run()
\* leaves the loop only when the loop condition finds the flag cleared (or
\* when the wait before the first iteration, outside the loop body, raises);
\* and after an exception another tick is entered unless shutdown is
\* requested (within the days checked).
C18_LoopSurvivesExceptions ==
    /\ [][(pc = "except" /\ pc' # pc) => pc' = "main_loop"]_vars
    /\ [][(pc # "done" /\ pc' = "done") =>
            \/ pc = "main_loop" /\ ~running
            \/ pc = "main_loop_start"]_vars
    /\ ((pc = "except") ~> (pc = "check_daily_reset" \/ ~running \/ now > LoopHorizon))

\* A tick is entered off the five-minute grid: the tick before it ended in
\* an exception and the pause.
C18_Witness ==
    /\ pc = "check_daily_reset"
    /\ running
    /\ MinuteOf(now) % 5 # 0

(***************************************************************************)
(* SpecGateway: requests through _make_request one after the other, after  *)
(* idle times shorter and longer than the request interval, with every     *)
(* outcome and with short and long latencies (milliseconds).               *)
(***************************************************************************)
MaxGatewayTime == 400
GatewayIdle == {0, 50, request_interval}
GatewayLatency == {1, 50}
GatewayRequest ==
    \E idle \in GatewayIdle, latency \in GatewayLatency, outcome \in RequestOutcomes :
        /\ time_time + idle + request_interval + latency <= MaxGatewayTime
        /\ MakeRequest(idle, latency, outcome)
GatewayNext == GatewayRequest
SpecGateway == Init /\ [][GatewayNext]_vars

\* C19: a request is sent at least one request interval after the request
\* before it was sent, whatever the outcome of that request.
C19_RequestsAtLeastOneIntervalApart ==
    (last.op = "make_request" /\ last.previous_sent_at # None) =>
        last.sent_at - Val(last.previous_sent_at) >= request_interval

(***************************************************************************)
(* SpecLock: several processes run the trading system at once.  The lock   *)
(* file is a path that names an inode (or nothing); an advisory lock is    *)
(* held on an inode on behalf of a process's open file; every system call  *)
(* of acquire_lock and release_lock is one step.                           *)
(***************************************************************************)
\* The inode a created file gets: one that neither the path nor an open
\* file refers to.
free_inodes ==
    {i \in Inodes : /\ lock_path # Some(i)
                    /\ \A p \in Processes : process[p].lock_file # Some(i)}

LockUnchanged ==
    UNCHANGED <<asset_positions, current_regimes, previous_prices, previous_emas,
                recent_cross_events, daily_cross_count, instrument_specs,
                account_balance, last_daily_reset, running, pc, now, signals,
                last, daily_reset_log, previous_regimes, exchange_klines, alert_vars, throttle_vars>>

\* acquire_lock: open('/tmp/multi_asset_trading.lock', 'w') opens the file
\* the path names, or creates it.
acquire_lock_open(p) ==
    /\ process[p].pc = "run"
    /\ \E i \in IF lock_path = None THEN free_inodes ELSE {Val(lock_path)} :
          /\ lock_path' = Some(i)
          /\ process' = [process EXCEPT ![p].pc = "flock", ![p].lock_file = Some(i)]
    /\ UNCHANGED flock_holder
    /\ LockUnchanged

\* acquire_lock: flock(LOCK_EX | LOCK_NB) on the open file; IOError when
\* another open file holds the lock, and run() returns.
acquire_lock_flock(p) ==
    /\ process[p].pc = "flock"
    /\ LET i == Val(process[p].lock_file)
       IN  IF flock_holder[i] = None
           THEN /\ flock_holder' = [flock_holder EXCEPT ![i] = Some(p)]
                /\ process' = [process EXCEPT ![p].pc = "initialize_system"]
           ELSE /\ flock_holder' = flock_holder
                /\ process' = [process EXCEPT ![p].pc = "refused"]
    /\ UNCHANGED lock_path
    /\ LockUnchanged

\* run(): acquire_lock returned False; the process ends and its file is closed.
run_returns_without_lock(p) ==
    /\ process[p].pc = "refused"
    /\ process' = [process EXCEPT ![p].pc = "done", ![p].lock_file = None]
    /\ UNCHANGED <<lock_path, flock_holder>>
    /\ LockUnchanged

\* run(): initialize_system; on failure run() returns through finally,
\* otherwise running is set and main_loop starts.
run_initialize_system(p, ok) ==
    /\ process[p].pc = "initialize_system"
    /\ process' = [process EXCEPT ![p].pc = IF ok THEN "main_loop" ELSE "release_lock",
                                  ![p].running = ok]
    /\ UNCHANGED <<lock_path, flock_holder>>
    /\ LockUnchanged

\* run(): main_loop returns or raises; finally calls release_lock.
run_main_loop_returns(p) ==
    /\ process[p].pc = "main_loop"
    /\ process' = [process EXCEPT ![p].pc = "release_lock"]
    /\ UNCHANGED <<lock_path, flock_holder>>
    /\ LockUnchanged

\* release_lock: flock(LOCK_UN).
release_lock_unlock(p) ==
    /\ process[p].pc = "release_lock"
    /\ LET i == Val(process[p].lock_file)
       IN  flock_holder' = IF flock_holder[i] = Some(p)
                           THEN [flock_holder EXCEPT ![i] = None]
                           ELSE flock_holder
    /\ process' = [process EXCEPT ![p].pc = "close"]
    /\ UNCHANGED lock_path
    /\ LockUnchanged

\* release_lock: lock_file.close().
release_lock_close(p) ==
    /\ process[p].pc = "close"
    /\ process' = [process EXCEPT ![p].pc = "unlink", ![p].lock_file = None]
    /\ UNCHANGED <<lock_path, flock_holder>>
    /\ LockUnchanged

\* release_lock: os.unlink of the path, whichever file it names; an error
\* (the path names nothing) is swallowed.
release_lock_unlink(p) ==
    /\ process[p].pc = "unlink"
    /\ lock_path' = None
    /\ process' = [process EXCEPT ![p].pc = "done"]
    /\ UNCHANGED flock_holder
    /\ LockUnchanged

LockNext ==
    \E p \in Processes :
        \/ acquire_lock_open(p)
        \/ acquire_lock_flock(p)
        \/ run_returns_without_lock(p)
        \/ \E ok \in BOOLEAN : run_initialize_system(p, ok)
        \/ run_main_loop_returns(p)
        \/ release_lock_unlock(p)
        \/ release_lock_close(p)
        \/ release_lock_unlink(p)
SpecLock == Init /\ [][LockNext]_vars

\* C20: at most one process at a time has acquired the lock and is
\* initializing or running the trading loop, and a process whose
\* acquire_lock failed never initializes or runs the loop.
C20_AtMostOneProcessRuns ==
    /\ [](\A p, q \in Processes :
            (/\ process[p].pc \in {"initialize_system", "main_loop"}
             /\ process[q].pc \in {"initialize_system", "main_loop"}) => p = q)
    /\ [][\A p \in Processes :
            process[p].pc = "refused" => process'[p].pc \in {"refused", "done"}]_vars

(***************************************************************************)
(* SpecMarket: get_market_data on bar lists of 599, 600 and 601 bars, in   *)
(* either order, with and without the bar that has just opened as the      *)
(* newest bar.  Old bars close at 1; the oldest bar and the two newest      *)
(* bars take their closes from small sets.                                  *)
(***************************************************************************)
MaxKlineClose == 2
MarketStart == Val(replace(0, 4, 0, 0))
MarketTails == [1..2 -> 1..MaxKlineClose]
MarketOldest == {1, 3}
MarketLengths == {min_klines - 1, min_klines, min_klines + 1}

\* n bars that end with the bar opened at newest_start, oldest first.
MarketBars(n, newest_start, oldest, tail) ==
    [i \in 1..n |->
        LET close == IF i = 1 THEN oldest
                     ELSE IF i > n - 2 THEN tail[i - (n - 2)]
                     ELSE 1
        IN  Kline(newest_start - bar_minutes * (n - i), close, 10 * close + (i % 2))]

MarketInit ==
    \E n \in MarketLengths, in_progress \in BOOLEAN, newest_first \in BOOLEAN,
       oldest \in MarketOldest, tail \in MarketTails :
        LET newest_start == IF in_progress THEN MarketStart
                            ELSE MarketStart - bar_minutes
            bars == MarketBars(n, newest_start, oldest, tail)
        IN  InitWith(MarketStart, IF newest_first THEN Reverse(bars) ELSE bars)
MarketGetMarketData == \E a \in Assets : GetMarketData(a)
MarketNext == MarketGetMarketData
SpecMarket == MarketInit /\ [][MarketNext]_vars

IsMarketData(l) == l.op = "get_market_data" /\ l.outcome = "ok"
\* The bars of a returned list oldest first, and those whose interval has
\* ended at time t.
Chronological(klines) ==
    IF klines[1].start > klines[Len(klines)].start THEN Reverse(klines) ELSE klines
ClosedBars(klines, t) ==
    SelectSeq(Chronological(klines), LAMBDA k : k.start + bar_minutes <= t)

\* C23: when the newest bar the gateway returned is still in progress, the
\* snapshot's price is the close of the newest bar that has ended and both
\* averages are computed from the closes of ended bars only.
C23_SnapshotUsesClosedBarsOnly ==
    (/\ IsMarketData(last)
     /\ LET bars == Chronological(last.klines)
        IN  bars[Len(bars)].start + bar_minutes > last.time) =>
        LET closed == ClosedBars(last.klines, last.time)
        IN  /\ last.price = closed[Len(closed)].close
            /\ Len(last.closes) = Len(closed)
            /\ \A i \in 1..Len(closed) : last.closes[i] = closed[i].close

\* C24: the snapshot built from a list of bars is the snapshot built from
\* the same bars in the opposite order.
C24_SnapshotIndependentOfBarOrder ==
    IsMarketData(last) =>
        get_market_data(last.asset, Reverse(last.klines), last.time)
          = get_market_data(last.asset, last.klines, last.time)

(***************************************************************************)
(* SpecNotify: operations that send a notification, called on their own    *)
(* with the delivery succeeding and failing: entries, and daily resets     *)
(* around midnight after cross events were counted.                        *)
(***************************************************************************)
MaxNotifyDays == 1
NotifyClockSteps == {1, 1440}
NotifyGetInstrumentInfo ==
    \E symbol \in Symbols : GetInstrumentInfo(symbol, Some(InstrumentSpec(1, 10, 1, 300)))
NotifyExecuteSignal ==
    \E a \in Assets, outcomes \in EntryOutcomes, delivered \in BOOLEAN :
        /\ ~asset_positions[a].in_position
        /\ ExecuteSignal(
               [asset |-> a, signal_type |-> "ENTER_SHORT", reason |-> "",
                price |-> 200, cross_events |-> <<>>],
               EntryInputWith(BalanceReply("usdt", 1001), outcomes,
                              [i \in 1..(max_retries - 1) |-> None], delivered))
NotifyGenerate ==
    \E p \in SignalPrices :
        /\ TotalEvents < 2
        /\ GenerateAssetSignal("BTC", MarketData("BTC", p, 2, 3, now))
NotifyCheckDailyReset ==
    \E report_delivered \in BOOLEAN : CheckDailyReset(report_delivered)
NotifyClock ==
    \E d \in NotifyClockSteps :
        /\ DayOf(now + d) <= MaxNotifyDays
        /\ MinuteOfDay(now + d) <= 1
        /\ AdvanceClock(d)
NotifyNext ==
    \/ NotifyGetInstrumentInfo
    \/ NotifyExecuteSignal
    \/ NotifyGenerate
    \/ NotifyCheckDailyReset
    \/ NotifyClock
SpecNotify == Init /\ [][NotifyNext]_vars

C28_EntryWitness ==
    /\ IsExecute(last)
    /\ last.notification # None
    /\ ~Val(last.notification).delivered
    /\ \A a \in Assets : asset_positions[a].in_position

(***************************************************************************)
(* The diagnostics of an entry signal (checked on SpecSignal).             *)
(***************************************************************************)
\* C29: the list of cross events attached to an EnterShort signal is never
\* empty, also when the qualifying cross within the five-minute window was
\* recorded by an earlier call.
C29_EnterShortCarriesItsCrossEvents ==
    (IsGenerate(last) /\ last.signal.signal_type = "ENTER_SHORT") =>
        last.signal.cross_events # <<>>

\* An EnterShort signal from a call that detected no cross itself: the
\* recent event that qualifies it was recorded by an earlier call.
C29_EnterShortOnEarlierCross ==
    /\ IsGenerate(last)
    /\ last.signal.signal_type = "ENTER_SHORT"
    /\ last.cross_events = <<>>
    /\ \E i \in 1..Len(recent_cross_events[last.asset]) :
          /\ recent_cross_events[last.asset][i].timestamp <= now
          /\ now - recent_cross_events[last.asset][i].timestamp
               <= recent_cross_window_minutes

(***************************************************************************)
(* SpecMaintenance: the daily reset check of ticks that may come late.     *)
(* The process starts on 1 January at 23:50; between two ticks the clock   *)
(* moves by one bar or, when ticks are missed, by an hour.                 *)
(***************************************************************************)
MaxMaintenanceDays == 2
MaintenanceStart == Val(replace(0, 1, 23, 50))
MaintenanceSteps == {bar_minutes, 60}
MaintenanceInit == InitAt(MaintenanceStart)
MaintenanceCheckDailyReset == CheckDailyReset(TRUE)
MaintenanceGenerate ==
    \E p \in SignalPrices :
        /\ TotalEvents < 2
        /\ MinuteOfDay(now) <= bar_minutes
        /\ GenerateAssetSignal("BTC", MarketData("BTC", p, 2, 3, now))
\* The next tick: every tick starts with the reset check, so the clock moves
\* on only after the check has run at the current instant.  Ticks follow
\* one another bar by bar around midnight and hour by hour otherwise.
MaintenanceClock ==
    \E d \in MaintenanceSteps :
        /\ last.op = "check_daily_reset"
        /\ last.time = now
        /\ DayOf(now + d) <= MaxMaintenanceDays
        /\ d = bar_minutes =>
              \/ MinuteOfDay(now + d) <= 2 * bar_minutes
              \/ MinuteOfDay(now + d) >= 1440 - 2 * bar_minutes
        /\ AdvanceClock(d)
MaintenanceNext ==
    \/ MaintenanceCheckDailyReset
    \/ MaintenanceGenerate
    \/ MaintenanceClock
SpecMaintenance == MaintenanceInit /\ [][MaintenanceNext]_vars

\* C31: a reset check that runs at or after 00:01 UTC of a date for which
\* the maintenance has not run performs it, whatever the hour: the day is
\* remembered and every count is zero afterwards.
C31_LateFirstTickStillResets ==
    [][ (/\ last'.op = "check_daily_reset"
         /\ last'.time = now
         /\ MinuteOfDay(now) >= 1
         /\ last_daily_reset # Some(DayOf(now))) =>
            /\ last_daily_reset' = Some(DayOf(now))
            /\ \A a \in Assets : daily_cross_count'[a] = 0
      ]_vars

\* The reset check has run after 01:00 of a date later than the remembered
\* one, and the remembered date and a non-zero count are as before.
C31_LateTickSkipsReset ==
    /\ last.op = "check_daily_reset"
    /\ HourOf(now) >= 1
    /\ last_daily_reset # None
    /\ Val(last_daily_reset) < DayOf(now)
    /\ \E a \in Assets : daily_cross_count[a] > 0

(***************************************************************************)
(* The way of an entry signal through its tick (checked on Spec).          *)
(***************************************************************************)
\* C32: every EnterShort signal the generator returns for an asset during a
\* tick is the signal stored for that asset when the execution phase of the
\* same tick starts, so that execute_signal is called for it: no later step
\* of the asset's processing discards it.
C32_EntrySignalReachesExecution ==
    IsTick(last) =>
        \A a \in Assets :
            last.generated[a].signal_type = "ENTER_SHORT" =>
                /\ signals[a] = Some(last.generated[a])
                /\ is_entry_signal(signals[a])

\* A tick in which the generator returned EnterShort for an asset without a
\* position, and the tick ended with no signal stored, no order attempted
\* and no position for it.
C32_EntrySignalDiscarded ==
    /\ IsTick(last)
    /\ \E a \in Assets :
        /\ last.generated[a].signal_type = "ENTER_SHORT"
        /\ signals[a] = None
        /\ last.entries[a] = <<>>
        /\ ~asset_positions[a].in_position

(***************************************************************************)
(* The corrected quantity of a validation (checked on SpecClient).         *)
(***************************************************************************)
\* C33: when validate_order_params reports valid for a quantity and a
\* price, the corrected quantity it returns is itself valid at that price:
\* at least the minimum, at most a positive maximum, and with a notional of
\* at least the minimum notional.
C33_CorrectedQuantityIsValid ==
    (last.op = "validate_order_params" /\ last.valid) =>
        validate_order_params(instrument_specs, last.symbol, last.quantity,
                              last.order_price).valid

\* A quantity accepted with its price whose corrected quantity has a
\* notional below the minimum notional.
C33_CorrectedQuantityBelowNotional ==
    /\ last.op = "validate_order_params"
    /\ last.valid
    /\ last.order_price # None
    /\ instrument_specs[last.symbol] # None
    /\ ~QLt(last.quantity, QInt(Val(instrument_specs[last.symbol]).min_order_qty))
    /\ QTimesLt(last.quantity, Val(last.order_price),
                Val(instrument_specs[last.symbol]).min_notional)

(***************************************************************************)
(* SpecClose: the exit block with close_position in full, for positions    *)
(* of three lots entered at 2.00, with the exchange still holding the      *)
(* short or not, the position request answered or failing, and the close   *)
(* order accepted or rejected.                                             *)
(***************************************************************************)
MaxCloseClock == 2
CloseSizes == {0, 3}
CloseGetInstrumentInfo ==
    \E symbol \in Symbols : GetInstrumentInfo(symbol, Some(InstrumentSpec(1, 10, 1, 300)))
CloseOpenPosition ==
    \E a \in Assets :
        /\ ~asset_positions[a].in_position
        /\ UpdatePosition(a, TRUE, 200, QInt(3), 600)
CloseExit ==
    \E a \in Assets, p \in TickPrices, exchange_size \in CloseSizes,
       read_ok \in BOOLEAN, exchange_ok \in BOOLEAN,
       fetch_reply \in {None, Some(InstrumentSpec(1, 10, 1, 300))} :
        ClosePositionExit(a, MarketData(a, p, 190, 201, now), exchange_size, read_ok,
                          fetch_reply, exchange_ok)
CloseClock ==
    /\ now + bar_minutes <= MaxCloseClock * bar_minutes
    /\ AdvanceClock(bar_minutes)
CloseNext ==
    \/ CloseGetInstrumentInfo
    \/ CloseOpenPosition
    \/ CloseExit
    \/ CloseClock
SpecClose == Init /\ [][CloseNext]_vars

IsCloseExit(l) == l.op = "close_position_exit"

\* C34: the exit block clears the ledger record of an asset only when a
\* reduce-only order was submitted and accepted or when the exchange
\* answered the position request with no position; when the position request
\* fails or the close raises, the record stays as it was.
C34_LedgerClearedOnlyOnConfirmedClose ==
    [][ IsCloseExit(last') =>
        LET a == last'.asset
        IN  /\ (asset_positions[a].in_position /\ ~asset_positions'[a].in_position) =>
                   \/ last'.close = "closed"
                   \/ last'.read_ok /\ last'.exchange_size = 0
            /\ (~last'.read_ok \/ last'.close = "raise") =>
                   asset_positions'[a] = asset_positions[a]
      ]_vars

\* The position request failed while the exchange holds the short: no order
\* was submitted and the ledger record is cleared.
C34_LedgerClearedOnFailedRead ==
    /\ IsCloseExit(last)
    /\ ~last.read_ok
    /\ last.exchange_size > 0
    /\ last.close = "no_position"
    /\ last.before.in_position
    /\ ~asset_positions[last.asset].in_position

(***************************************************************************)
(* SpecBalance: entries after the session start, with every wallet-balance *)
(* reply at the start and at the entry.                                    *)
(***************************************************************************)
\* The reply at the entry: a wallet of 10.01 or of 20.02, a reply without a
\* USDT balance, or a failed request.
BalanceEntryReplies == EntryBalanceReplies \cup {BalanceReply("usdt", 2002)}
BalanceStart ==
    \E balance_reply \in StartBalanceReplies :
        InitializeSystem(balance_reply,
                         [a \in Assets |-> Some(InstrumentSpec(1, 10, 1, 300))],
                         [a \in Assets |-> <<>>])
BalanceExecuteSignal ==
    \E a \in Assets, balance \in BalanceEntryReplies, outcomes \in EntryOutcomes :
        /\ pc # "run"
        /\ ~asset_positions[a].in_position
        /\ ExecuteSignal(
               [asset |-> a, signal_type |-> "ENTER_SHORT", reason |-> "",
                price |-> 200, cross_events |-> <<>>],
               EntryInput(balance, outcomes, [i \in 1..(max_retries - 1) |-> None]))
BalanceNext ==
    \/ BalanceStart
    \/ BalanceExecuteSignal
SpecBalance == Init /\ [][BalanceNext]_vars

\* C35: the leveraged value of an entry is computed from the USDT wallet
\* balance the exchange reported for this entry, and from the balance cached
\* at session start when the exchange reported none.
C35_TargetFromReportedOrCachedBalance ==
    (IsExecute(last) /\ last.opened) =>
        asset_positions[last.asset].leveraged_value =
            leveraged_value_of(IF last.balance.kind = "usdt"
                               THEN last.balance.wallet
                               ELSE account_balance)

\* An entry whose balance request failed, after a session start that cached
\* a wallet of 10.01: the position is recorded with the leveraged value of
\* the demo balance.
C35_TargetFromDemoBalance ==
    /\ IsExecute(last)
    /\ last.opened
    /\ last.balance.kind = "failed"
    /\ account_balance = 1001
    /\ asset_positions[last.asset].leveraged_value = leveraged_value_of(demo_wallet_balance)

(***************************************************************************)
(* The wait between ticks (checked on SpecLoop).                           *)
(***************************************************************************)
\* C36: the body of the loop is entered only after a wait for the next bar
\* close, also after an iteration that ended with an exception: the step
\* before the entry is the wait, and the clock is on a bar boundary.
C36_EveryTickFollowsBarCloseWait ==
    [][ (pc = "main_loop" /\ pc' = "check_daily_reset") =>
            /\ last.op = "wait_for_next_5min_close"
            /\ MinuteOf(now) % bar_minutes = 0
      ]_vars

\* A tick entered from the exception handler within a minute of the tick
\* before it, whose wait raised: both run in the same bar.
C36_TickAfterExceptionInSameBar ==
    /\ pc = "main_loop"
    /\ running
    /\ last.op = "except"
    /\ now <= last.time + 1

(***************************************************************************)
(* Shutdown signals from the installation of the handlers on (checked on   *)
(* SpecLoopFair).                                                          *)
(***************************************************************************)
\* The positions of run() outside the loop body, and inside it.
OutsideBody == {"run", "main_loop_start", "main_loop"}
InsideBody ==
    {"check_daily_reset", "process_assets", "execute_signals",
     "check_position_exits", "wait_for_next_5min_close", "except"}
SignalReceivedAt(positions) == last.op = "signal_handler" /\ pc \in positions

\* C37: a shutdown signal is never lost, wherever run() is when the handler
\* runs: after a signal received before the loop or between two iterations
\* no tick is entered; after one received during a tick no tick is entered
\* once that tick has ended; and run() ends.
C37_ShutdownSignalNeverLost ==
    /\ [](SignalReceivedAt(OutsideBody) => [](pc # "check_daily_reset"))
    /\ [](SignalReceivedAt(InsideBody) =>
            [](pc = "main_loop" => [](pc # "check_daily_reset")))
    /\ ((last.op = "signal_handler") ~> (pc = "done"))


(***************************************************************************)
(* SpecRecord: generate_asset_signal for one asset whose price moves       *)
(* between 4, 2 and 1 against averages of 3 (EMA240) and 2 (EMA600), with  *)
(* and without a position, up to the daily cross limit.                    *)
(***************************************************************************)
MaxRecordEvents == 13
RecordPrices == {1, 2, 4}
RecordGenerate ==
    \E p \in RecordPrices :
        /\ GenerateAssetSignal("BTC", MarketData("BTC", p, 3, 2, now))
        /\ TotalEvents' <= MaxRecordEvents
RecordOpenPosition ==
    /\ ~asset_positions["BTC"].in_position
    /\ UpdatePosition("BTC", TRUE, 1, QInt(1), 1)
RecordClosePosition ==
    /\ asset_positions["BTC"].in_position
    /\ UpdatePosition("BTC", FALSE, 0, QInt(0), 0)
RecordNext ==
    \/ RecordGenerate
    \/ RecordOpenPosition
    \/ RecordClosePosition
SpecRecord == Init /\ [][RecordNext]_vars

\* C38: whatever decision a generate call returns, cross detection has run:
\* the stored previous price and averages of the asset are the call's
\* snapshot, the events the call returns are the crosses from the stored
\* observation to the snapshot, and each of them is appended to the asset's
\* recorded events and counted in its daily count, also when the asset is
\* in a position or the regime is inactive.
C38_DetectionRunsWhateverTheDecision ==
    [][ IsGenerate(last') =>
        LET a == last'.asset
            md == last'.md
            detected == detect_cross_events(previous_prices[a], previous_emas[a], md)
        IN  /\ previous_prices'[a] = Some(md.price)
            /\ previous_emas'[a] = [ema_240 |-> Some(md.ema_240),
                                    ema_600 |-> Some(md.ema_600)]
            /\ last'.cross_events = detected
            /\ recent_cross_events'[a] = recent_cross_events[a] \o detected
            /\ daily_cross_count'[a] = daily_cross_count[a] + Len(detected)
      ]_vars

\* A call for an asset in a position whose price fell below EMA240 only
\* (inactive regime): NoAction, and the cross is the asset's latest recorded
\* event and is counted.
C38_Witness ==
    /\ IsGenerate(last)
    /\ asset_positions[last.asset].in_position
    /\ current_regimes[last.asset] = "INACTIVE"
    /\ last.signal.signal_type = "NO_ACTION"
    /\ Len(last.cross_events) = 1
    /\ Len(recent_cross_events[last.asset]) >= 1
    /\ recent_cross_events[last.asset][Len(recent_cross_events[last.asset])]
         = last.cross_events[1]
    /\ daily_cross_count[last.asset] >= 1

(***************************************************************************)
(* Strategy engine: market alerts                                          *)
(***************************************************************************)
alert_cooldown_minutes == 15
max_recent_alerts == 10
history_length == 20

Alert(asset, alert_type, timestamp) ==
    [asset |-> asset, alert_type |-> alert_type, timestamp |-> timestamp]

\* update_market_data_history: the value is appended and the oldest one
\* dropped beyond 20.
history_append(history, value) ==
    LET appended == Append(history, value)
    IN  IF Len(appended) > history_length THEN Tail(appended) ELSE appended

\* is_alert_on_cooldown(asset, alert_type) at time t, over the asset's
\* retained alerts.
is_alert_on_cooldown(alerts, alert_type, t) ==
    \E i \in 1..Len(alerts) :
        /\ alerts[i].alert_type = alert_type
        /\ alerts[i].timestamp > t - alert_cooldown_minutes

\* Mutant: only the three latest alerts of an asset are retained.
add_alert_keeps_three(alerts, alert) ==
    LET appended == Append(alerts, alert)
    IN  IF Len(appended) > 3 THEN Tail(appended) ELSE appended

\* add_alert(alert), on the asset's retained alerts: appended, and the
\* oldest dropped beyond 10.
add_alert(alerts, alert) ==
    LET appended == Append(alerts, alert)
    IN  IF Len(appended) > max_recent_alerts THEN Tail(appended) ELSE appended

\* One alert condition of detect_market_alerts: when it holds and the type
\* is not on cooldown the alert is created and added.
raise_alert(alerts, asset, alert_type, condition, t) ==
    IF condition /\ ~is_alert_on_cooldown(alerts, alert_type, t)
    THEN add_alert(alerts, Alert(asset, alert_type, t))
    ELSE alerts

Abs(x) == IF x < 0 THEN 0 - x ELSE x

\* detect_market_alerts(market_data) at time t for positive prices, volumes
\* and averages: the histories are updated, then the four conditions are
\* tested in turn: a regime other than the one of the call before; a move of
\* more than 2 % over the last three prices; a volume of more than twice the
\* mean of the four before it; averages within 0.5 % of each other.  The
\* percentages are compared after multiplying through.
detect_market_alerts(alerts, prices, volumes, previous_regime, md, volume, t) ==
    LET a == md.asset
        ph == history_append(prices, md.price)
        vh == history_append(volumes, volume)
        current_regime == determine_market_regime(md)
        n == Len(ph)
        m == Len(vh)
        after_regime ==
            raise_alert(alerts, a, "REGIME_CHANGE",
                        previous_regime # None /\ Val(previous_regime) # current_regime, t)
        after_price ==
            raise_alert(after_regime, a, "PRICE_MOVEMENT",
                        n >= 3 /\ Abs(ph[n] - ph[n - 2]) * 100 > 2 * ph[n - 2], t)
        after_volume ==
            raise_alert(after_price, a, "VOLUME_SPIKE",
                        m >= 5 /\ vh[m] * 4 > 2 * (vh[m - 4] + vh[m - 3] + vh[m - 2] + vh[m - 1]),
                        t)
        after_ema ==
            raise_alert(after_volume, a, "EMA_CONVERGENCE",
                        Abs(md.ema_240 - md.ema_600) * 1000 < 5 * md.ema_600, t)
        raised(before, after) == IF after = before THEN <<>> ELSE <<after[Len(after)]>>
    IN  [recent_alerts |-> after_ema, price_history |-> ph, volume_history |-> vh,
         current_regime |-> current_regime,
         alerts |-> raised(alerts, after_regime) \o raised(after_regime, after_price)
                    \o raised(after_price, after_volume) \o raised(after_volume, after_ema)]

\* The alerts cleanup_old_cross_events keeps at time t.
cleanup_old_alerts(alerts, t) ==
    SelectSeq(alerts, LAMBDA alert : alert.timestamp > t - hours_to_keep_minutes)

\* A call of detect_market_alerts(market_data) on its own.
DetectMarketAlerts(a, md, volume) ==
    /\ md.asset = a
    /\ md.timestamp = now
    /\ \E r \in {detect_market_alerts(recent_alerts[a], price_history[a], volume_history[a],
                                      previous_regimes[a], md, volume, now)} :
          /\ recent_alerts' = [recent_alerts EXCEPT ![a] = r.recent_alerts]
          /\ price_history' = [price_history EXCEPT ![a] = r.price_history]
          /\ volume_history' = [volume_history EXCEPT ![a] = r.volume_history]
          /\ current_regimes' = [current_regimes EXCEPT ![a] = r.current_regime]
          /\ previous_regimes' = [previous_regimes EXCEPT ![a] = Some(r.current_regime)]
          /\ alert_log' = alert_log \o r.alerts
          /\ last' = [LastDefault EXCEPT
                        !.op = "detect_market_alerts", !.asset = a, !.md = md,
                        !.time = now, !.volume = volume]
    /\ UNCHANGED <<asset_positions, previous_prices, previous_emas, recent_cross_events,
                   daily_cross_count, instrument_specs, account_balance,
                   last_daily_reset, running, pc, now, signals, exchange_klines,
                   daily_reset_log, throttle_vars, lock_vars>>

\* A call of cleanup_old_cross_events(hours_to_keep=24) on its own: the old
\* cross events and the old alerts of every asset are dropped.
CleanupOldCrossEvents ==
    /\ SetEngine(cleanup_old_cross_events(Engine, now))
    /\ recent_alerts' = [a \in Assets |-> cleanup_old_alerts(recent_alerts[a], now)]
    /\ last' = [LastDefault EXCEPT !.op = "cleanup_old_cross_events", !.time = now]
    /\ UNCHANGED <<price_history, volume_history, alert_log, previous_regimes,
                   instrument_specs, account_balance, last_daily_reset, running, pc,
                   now, signals, exchange_klines, daily_reset_log, throttle_vars,
                   lock_vars>>

(***************************************************************************)
(* SpecAlerts: detect_market_alerts once per bar for one asset, each bar   *)
(* quiet (price 100.00 between averages of 98.00 and 102.00, volume 1) or  *)
(* loud (price 95.00 below averages of 100.00 both, volume 3), with the    *)
(* cleanup before a call and a day passing after the first bars; the first *)
(* calls may be a minute apart, which shifts the later ones off the bars.  *)
(***************************************************************************)
MaxAlertBars == 9
MaxAlertOffset == 2
AlertSnapshots(t) ==
    {[md |-> MarketData("BTC", 10000, 9800, 10200, t), volume |-> 1],
     [md |-> MarketData("BTC", 9500, 10000, 10000, t), volume |-> 3]}
AlertDetect ==
    \E snapshot \in AlertSnapshots(now) :
        /\ last.op \in {"init", "clock", "cleanup_old_cross_events"}
        /\ DetectMarketAlerts("BTC", snapshot.md, snapshot.volume)
AlertCleanup ==
    /\ last.op = "clock"
    /\ CleanupOldCrossEvents
AlertClock ==
    /\ last.op = "detect_market_alerts"
    /\ MinuteOfDay(now) + bar_minutes <= MaxAlertBars * bar_minutes
    /\ AdvanceClock(bar_minutes)
AlertClockMinute ==
    /\ last.op = "detect_market_alerts"
    /\ now < MaxAlertOffset
    /\ AdvanceClock(1)
AlertClockDay ==
    /\ last.op = "detect_market_alerts"
    /\ now <= alert_cooldown_minutes
    /\ AdvanceClock(hours_to_keep_minutes)
AlertNext ==
    \/ AlertDetect
    \/ AlertCleanup
    \/ AlertClock
    \/ AlertClockMinute
    \/ AlertClockDay
SpecAlerts == Init /\ [][AlertNext]_vars

\* C39: any two alerts of one type raised for an asset are at least 15
\* minutes apart, and every alert raised less than 15 minutes ago is still
\* among the retained alerts of its asset: neither the cap of 10 nor the
\* cleanup has dropped it.
C39_AlertsOfATypeAreACooldownApart ==
    /\ \A i, j \in 1..Len(alert_log) :
          (/\ i < j
           /\ alert_log[i].asset = alert_log[j].asset
           /\ alert_log[i].alert_type = alert_log[j].alert_type) =>
              alert_log[j].timestamp - alert_log[i].timestamp >= alert_cooldown_minutes
    /\ \A i \in 1..Len(alert_log) :
          now - alert_log[i].timestamp < alert_cooldown_minutes =>
              \E k \in 1..Len(recent_alerts[alert_log[i].asset]) :
                  recent_alerts[alert_log[i].asset][k] = alert_log[i]

\* More alerts were raised than are retained, the cap has dropped some, and
\* two alerts of one type were raised exactly 15 minutes apart.
C39_Witness ==
    /\ Len(alert_log) > max_recent_alerts
    /\ Len(recent_alerts["BTC"]) = max_recent_alerts
    /\ \E i, j \in 1..Len(alert_log) :
          /\ i < j
          /\ alert_log[i].alert_type = alert_log[j].alert_type
          /\ alert_log[j].timestamp - alert_log[i].timestamp = alert_cooldown_minutes

IsRoundQuantity(l) == l.op = "round_quantity"

\* C40: round_quantity returns its own outputs unchanged: for every cached
\* spec with a positive qty_step, rounding the quantity that round_quantity
\* returned gives that quantity again (so the rounding inside place_order
\* leaves a rounded quantity as it is).
C40_RoundQuantityIsIdempotent ==
    (/\ IsRoundQuantity(last)
     /\ instrument_specs[last.symbol] # None
     /\ Val(instrument_specs[last.symbol]).qty_step > 0) =>
        round_quantity(instrument_specs, last.symbol, last.quantity) = last.quantity

\* A quantity above a maximum of 3 lots that is not a multiple of the step of
\* 2 lots is capped at 3, and 3 lots are rounded to 2.
C40_CappedQuantityRoundsAgain ==
    /\ IsRoundQuantity(last)
    /\ instrument_specs[last.symbol] = Some(InstrumentSpec(1, 3, 2, 0))
    /\ last.raw_quantity = QInt(4)
    /\ last.quantity = QInt(3)
    /\ round_quantity(instrument_specs, last.symbol, last.quantity) = QInt(2)

====
